---- MODULE Spec2Model ----
(***************************************************************************)
(* A model of the Mython interpreter: the lexer (src/src/lexer.cpp,        *)
(* src/include/lexer.h) and the tree-walking evaluator                     *)
(* (src/src/statement.cpp, src/src/runtime.cpp).                           *)
(*                                                                         *)
(* Characters are one-character strings.  The byte 0xFF is the string      *)
(* "xFF", and the value std::char_traits<char>::eof() is the string "EOF". *)
(***************************************************************************)
EXTENDS Integers, Sequences, FiniteSets, TLC

VARIABLES
    lexer,      \* the parse::Lexer object: its stream and its private fields
    phase,      \* "new" before the constructor ran, "ready" after it, "failed" when it threw
    ret,        \* what the last call of the Lexer API returned or threw
    tokens,     \* history: every token the constructor and NextToken produced, in order
    ats,        \* history: for every token, the stream position at which its rule began
    eofCalls,   \* history: how many calls produced Eof so far
    threw,      \* history: whether some call has thrown
    calls,      \* history: how many times ReadNextToken was called from outside
    program,    \* the AST the parser built: class descriptors and top-level statements
    machine,    \* the evaluator: closures, attribute tables, output stream, pending exception
    pc,         \* how many top-level statements have been executed
    exit        \* "running", or how the run of the program ended

lexVars == <<lexer, phase, ret, tokens, ats, eofCalls, threw, calls>>

evalVars == <<program, machine, pc, exit>>

vars == <<lexer, phase, ret, tokens, ats, eofCalls, threw, calls,
          program, machine, pc, exit>>

----------------------------------------------------------------------------
(* Bounds of the model.                                                    *)

\* longest free-form input (any characters of Alphabet)
MaxLen == 3
\* most lines of a layout input (lines of spaces, a name, a comment)
MaxLines == 2
\* most leading spaces of a line of a layout input
MaxSpaces == 4
\* how many calls may produce Eof before the model stops calling NextToken
MaxEofCalls == 2

----------------------------------------------------------------------------
(* Characters.                                                             *)

EOF == "EOF"
xFF == "xFF"

Digits == {"0", "1", "2", "3", "4", "5", "6", "7", "8", "9"}

Letters ==
    {"a", "b", "c", "d", "e", "f", "g", "h", "i", "j", "k", "l", "m",
     "n", "o", "p", "q", "r", "s", "t", "u", "v", "w", "x", "y", "z",
     "N", "T", "F"}

DigitValue(c) ==
    CASE c = "0" -> 0 [] c = "1" -> 1 [] c = "2" -> 2 [] c = "3" -> 3
      [] c = "4" -> 4 [] c = "5" -> 5 [] c = "6" -> 6 [] c = "7" -> 7
      [] c = "8" -> 8 [] c = "9" -> 9

\* char ch = input_.peek(): the int that peek returns, narrowed to a (signed)
\* char.  Both traits::eof() (-1) and the byte 0xFF become the char -1, which
\* compares equal to traits::eof().
ToChar(v) == IF v = xFF THEN EOF ELSE v

IsNum(ch) == ch \in Digits

IsAlpha(ch) == ch \in Letters

IsAlNum(ch) == IsNum(ch) \/ IsAlpha(ch)

IsAlNumLL(ch) == IsAlNum(ch) \/ ch = "_"

----------------------------------------------------------------------------
(* Tokens.                                                                 *)

Tok(t) == [type |-> t]

TokV(t, v) == [type |-> t, value |-> v]

KeyWordNames ==
    { <<"c","l","a","s","s">>, <<"r","e","t","u","r","n">>, <<"i","f">>,
      <<"e","l","s","e">>, <<"d","e","f">>, <<"p","r","i","n","t">>,
      <<"a","n","d">>, <<"o","r">>, <<"n","o","t">>, <<"N","o","n","e">>,
      <<"T","r","u","e">>, <<"F","a","l","s","e">> }

KeyWords(name) ==
    CASE name = <<"c","l","a","s","s">> -> Tok("Class")
      [] name = <<"r","e","t","u","r","n">> -> Tok("Return")
      [] name = <<"i","f">> -> Tok("If")
      [] name = <<"e","l","s","e">> -> Tok("Else")
      [] name = <<"d","e","f">> -> Tok("Def")
      [] name = <<"p","r","i","n","t">> -> Tok("Print")
      [] name = <<"a","n","d">> -> Tok("And")
      [] name = <<"o","r">> -> Tok("Or")
      [] name = <<"n","o","t">> -> Tok("Not")
      [] name = <<"N","o","n","e">> -> Tok("None")
      [] name = <<"T","r","u","e">> -> Tok("True")
      [] name = <<"F","a","l","s","e">> -> Tok("False")

DualSymbolNames == { <<"=","=">>, <<"!","=">>, <<">","=">>, <<"<","=">> }

DualSymbols(pair) ==
    CASE pair = <<"=","=">> -> Tok("Eq")
      [] pair = <<"!","=">> -> Tok("NotEq")
      [] pair = <<">","=">> -> Tok("GreaterOrEq")
      [] pair = <<"<","=">> -> Tok("LessOrEq")

----------------------------------------------------------------------------
(* The input stream (std::istream& input_): a buffer and a read position.  *)
(* A record L below is the Lexer object; L.buf and L.pos are its stream.   *)
(* The stream's eofbit/failbit are not kept: they are set only by a read   *)
(* at the end of the buffer, where every later read fails anyway.          *)

\* input.peek(): the next byte, or traits::eof() at the end of the buffer
Peek(L) == IF L.pos < Len(L.buf) THEN L.buf[L.pos + 1] ELSE EOF

\* which bytes each read loop of namespace util keeps consuming
Keeps(loop, c) ==
    CASE loop = "CountSpaces" -> c = " "
      [] loop = "ReadLine" -> c # "\n"
      [] loop = "ParseComment" -> c # "\n"
      [] loop = "ReadName" -> IsAlNumLL(c)
      [] loop = "ReadNumber" -> IsNum(c)

\* `while (input.get(c)) { if (keeps c) ... else { input.putback(c); break; } }`:
\* the stream position after the run of bytes the loop keeps, from position p
RECURSIVE SkipWhile(_, _, _)
SkipWhile(buf, p, loop) ==
    IF p < Len(buf) /\ Keeps(loop, buf[p + 1]) THEN SkipWhile(buf, p + 1, loop) ELSE p

\* size_t CountSpaces(std::istream&): consumes the run of spaces, returns the
\* stream position after it; the count is the distance moved
CountSpaces(L) == SkipWhile(L.buf, L.pos, "CountSpaces")

\* std::string ReadLine(std::istream&): getline consumes up to and including
\* the next newline, or to the end of the buffer
ReadLine(L) ==
    LET p == SkipWhile(L.buf, L.pos, "ReadLine")
    IN  IF p < Len(L.buf) THEN p + 1 ELSE p

\* std::string ReadName(std::istream&): the maximal run of [A-Za-z0-9_]
ReadName(L) ==
    LET p == SkipWhile(L.buf, L.pos, "ReadName")
    IN  [name |-> SubSeq(L.buf, L.pos + 1, p), pos |-> p]

\* INT_MAX, the largest value of the int that std::stoi returns
INT_MAX == 2147483647

\* std::stoi on a string of decimal digits: the value, or "out_of_range"
\* (std::out_of_range) when it exceeds INT_MAX.  The value is accumulated
\* digit by digit and never formed when it would exceed INT_MAX.
RECURSIVE StoiFrom(_, _, _)
StoiFrom(num, i, acc) ==
    IF i > Len(num) THEN [ok |-> TRUE, value |-> acc]
    ELSE LET d == DigitValue(num[i])
         IN  IF acc > (INT_MAX - d) \div 10
             THEN [ok |-> FALSE, value |-> 0]
             ELSE StoiFrom(num, i + 1, acc * 10 + d)

Stoi(num) == StoiFrom(num, 1, 0)

\* int ReadNumber(std::istream&): the maximal digit run, converted by stoi
ReadNumber(L) ==
    LET p == SkipWhile(L.buf, L.pos, "ReadNumber")
        num == SubSeq(L.buf, L.pos + 1, p)
    IN  IF num = <<>> THEN [ok |-> TRUE, value |-> 0, pos |-> p]
        ELSE [ok |-> Stoi(num).ok, value |-> Stoi(num).value, pos |-> p]

\* the character an escape \next appends to the literal, if any
Escape(next) ==
    CASE next = "\"" -> <<"\"">>
      [] next = "'" -> <<"'">>
      [] next = "n" -> <<"\n">>
      [] next = "t" -> <<"\t">>
      [] OTHER -> <<>>

\* the loop of ReadString.  c is the variable `char c`, which input.get(c)
\* leaves unmodified when it fails; u is the indeterminate value an
\* uninitialized char holds (`char next` after a failed input.get(next)).
RECURSIVE ReadStringLoop(_, _, _, _, _, _)
ReadStringLoop(buf, p, first, line, c, u) ==
    IF p >= Len(buf) THEN [c |-> c, line |-> line, pos |-> p]
    ELSE LET got == buf[p + 1]
         IN  IF got = "\\"
             THEN IF p + 1 < Len(buf)
                  THEN ReadStringLoop(buf, p + 2, first,
                                      line \o Escape(buf[p + 2]), got, u)
                  ELSE ReadStringLoop(buf, p + 1, first,
                                      line \o Escape(u), got, u)
             ELSE IF got = first
                  THEN [c |-> got, line |-> line, pos |-> p + 1]
                  ELSE ReadStringLoop(buf, p + 1, first,
                                      line \o <<got>>, got, u)

\* std::string ReadString(std::istream&).  `char c` is declared without an
\* initializer: when the opening quote is the last byte of the input the loop
\* body never runs and `c != first` reads the indeterminate value u.
ReadString(L, u) ==
    LET first == L.buf[L.pos + 1]
        r == ReadStringLoop(L.buf, L.pos + 1, first, <<>>, u, u)
    IN  [ok |-> r.c = first, line |-> r.line, pos |-> r.pos]

----------------------------------------------------------------------------
(* class Lexer.  A record L holds the stream (buf, pos), the private       *)
(* fields, and `thrown`: the exception the call in progress has raised     *)
(* ("none" when it has raised nothing).  Two more fields record where the  *)
(* last call of ReadNextToken ended: `rule` is the member function that    *)
(* produced its result and `at` the stream position at which the           *)
(* activation that did so peeked.                                          *)

\* the fields as their default member initializers set them; the variant
\* current_token_ is default-constructed to its first alternative, Number{0}
NewLexer(input) ==
    [buf |-> input, pos |-> 0,
     start_of_line_ |-> TRUE, current_indent_ |-> 0, line_indent_ |-> 0,
     current_token_ |-> TokV("Number", 0),
     thrown |-> "none", rule |-> "none", at |-> 0]

NextLine(L) ==
    [L EXCEPT !.pos = ReadLine(L), !.start_of_line_ = TRUE, !.line_indent_ = 0]

\* ParseEOF that ends a last line without a newline by no Newline
ParseEOF_NoNewline(L) ==
    LET M == [L EXCEPT !.rule = "ParseEOF"]
    IN  IF L.current_indent_ > 0
        THEN [M EXCEPT !.current_indent_ = @ - 1, !.current_token_ = Tok("Dedent")]
        ELSE [M EXCEPT !.current_token_ = Tok("Eof")]

\* ParseEOF that emits Eof with indentation levels still open
ParseEOF_NoDedent(L) ==
    LET M == [L EXCEPT !.rule = "ParseEOF"]
    IN  IF ~L.start_of_line_
        THEN [NextLine(M) EXCEPT !.current_token_ = Tok("Newline")]
        ELSE [M EXCEPT !.current_token_ = Tok("Eof")]

ParseEOF(L) ==
    LET M == [L EXCEPT !.rule = "ParseEOF"]
    IN  IF ~L.start_of_line_
        THEN [NextLine(M) EXCEPT !.current_token_ = Tok("Newline")]
        ELSE IF L.current_indent_ > 0
             THEN [M EXCEPT !.current_indent_ = @ - 1, !.current_token_ = Tok("Dedent")]
             ELSE [M EXCEPT !.current_token_ = Tok("Eof")]

ParseIndent(L) ==
    LET M == [L EXCEPT !.rule = "ParseIndent"]
    IN  IF L.current_indent_ < L.line_indent_
        THEN [M EXCEPT !.current_indent_ = @ + 1, !.current_token_ = Tok("Indent")]
        ELSE IF L.current_indent_ > L.line_indent_
             THEN [M EXCEPT !.current_indent_ = @ - 1, !.current_token_ = Tok("Dedent")]
             ELSE M

ParseName(L) ==
    LET r == ReadName(L)
    IN  [L EXCEPT !.pos = r.pos,
                  !.current_token_ = IF r.name \in KeyWordNames
                                     THEN KeyWords(r.name)
                                     ELSE TokV("Id", r.name)]

\* sym_pair holds the byte read by get() and the byte peek() shows next
\* (the char -1 at the end of the input, which matches no dual symbol)
ParseChar(L) ==
    LET c1 == L.buf[L.pos + 1]
        after == [L EXCEPT !.pos = @ + 1]
        sym_pair == <<c1, ToChar(Peek(after))>>
    IN  IF sym_pair \in DualSymbolNames
        THEN [after EXCEPT !.pos = @ + 1, !.current_token_ = DualSymbols(sym_pair)]
        ELSE [after EXCEPT !.current_token_ = TokV("Char", c1)]

\* ReadNumber throws std::out_of_range (from std::stoi), ReadString throws
\* std::runtime_error; either leaves current_token_ as it was
ParseToken(LL, u) ==
    LET L == [LL EXCEPT !.rule = "ParseToken"]
        ch == Peek(L)
    IN  IF IsNum(ch)
        THEN LET r == ReadNumber(L)
             IN  IF r.ok
                 THEN [L EXCEPT !.pos = r.pos,
                                !.current_token_ = TokV("Number", r.value)]
                 ELSE [L EXCEPT !.pos = r.pos, !.thrown = "out_of_range"]
        ELSE IF IsAlNumLL(ch)
        THEN ParseName(L)
        ELSE IF ch = "\"" \/ ch = "'"
        THEN LET r == ReadString(L, u)
             IN  IF r.ok
                 THEN [L EXCEPT !.pos = r.pos,
                                !.current_token_ = TokV("String", r.line)]
                 ELSE [L EXCEPT !.pos = r.pos, !.thrown = "runtime_error"]
        ELSE ParseChar(L)

\* ReadNextToken calls itself through ParseComment, ParseLineEnd and
\* ParseSpaces.  `frames` is how many more activations may be entered; a call
\* that needs more has not returned, which `thrown = "no_return"` records.
RECURSIVE ReadNextToken(_, _, _)

\* ParseComment that retries without having consumed the comment
ParseComment_NoProgress(L, u, frames) == ReadNextToken(L, u, frames)

ParseComment(L, u, frames) ==
    ReadNextToken([L EXCEPT !.pos = SkipWhile(L.buf, L.pos, "ParseComment")],
                  u, frames)

\* ParseLineEnd that returns Newline for an empty line too
ParseLineEnd_NewlineOnBlank(L, u, frames) ==
    [NextLine(L) EXCEPT !.current_token_ = Tok("Newline"), !.rule = "ParseLineEnd"]

ParseLineEnd(L, u, frames) ==
    IF L.start_of_line_
    THEN ReadNextToken(NextLine(L), u, frames)
    ELSE [NextLine(L) EXCEPT !.current_token_ = Tok("Newline"),
                             !.rule = "ParseLineEnd"]

\* ParseSpaces that takes one space, not two, as the indentation unit
ParseSpaces_OneSpaceUnit(L, u, frames) ==
    LET p == CountSpaces(L)
        spaces_count == p - L.pos
        counted == [L EXCEPT !.pos = p]
    IN  IF L.start_of_line_
        THEN ReadNextToken([counted EXCEPT !.line_indent_ = spaces_count], u, frames)
        ELSE ReadNextToken(counted, u, frames)

ParseSpaces(L, u, frames) ==
    LET p == CountSpaces(L)
        spaces_count == p - L.pos
        counted == [L EXCEPT !.pos = p]
    IN  IF L.start_of_line_
        THEN ReadNextToken([counted EXCEPT !.line_indent_ = spaces_count \div 2],
                           u, frames)
        ELSE ReadNextToken(counted, u, frames)

ReadNextToken(L, u, frames) ==
    IF frames = 0 THEN [L EXCEPT !.thrown = "no_return"]
    ELSE LET ch == ToChar(Peek(L))
             here == [L EXCEPT !.at = L.pos]
         IN  IF ch = EOF THEN ParseEOF(here)
             ELSE IF ch = "\n" THEN ParseLineEnd(here, u, frames - 1)
             ELSE IF ch = "#" THEN ParseComment(here, u, frames - 1)
             ELSE IF ch = " " THEN ParseSpaces(here, u, frames - 1)
             ELSE IF L.start_of_line_ /\ L.current_indent_ # L.line_indent_
             THEN ParseIndent(here)
             ELSE LET parsed == ParseToken(here, u)
                  IN  IF parsed.thrown # "none" THEN parsed
                      ELSE [parsed EXCEPT !.start_of_line_ = FALSE]

\* one call of ReadNextToken from the constructor or from NextToken: enough
\* activations for a call that consumes at least one byte per retry
Frames(L) == Len(L.buf) - L.pos + 2

----------------------------------------------------------------------------
(* The inputs the lexer is run on.                                         *)

\* every sequence over S of length at most n
SeqsUpTo(S, n) == UNION { [1..k -> S] : k \in 0..n }

\* the characters of free-form inputs
Alphabet == {" ", "\n", "#", "7", "a", "'", "\"", "\\", "=", xFF}

FreeInputs == SeqsUpTo(Alphabet, MaxLen)

\* a line of a layout input: n spaces, then nothing, a comment, a name, or a
\* name followed by a space and a comment
LineBodies == { <<>>, <<"#">>, <<"a">>, <<"a", " ", "#">> }

Line(n, body) == [i \in 1..n |-> " "] \o body

Lines == { Line(n, body) : n \in 0..MaxSpaces, body \in LineBodies }

\* the lines ls[1..k] joined by newlines
RECURSIVE Join(_, _)
Join(ls, k) ==
    IF k = 0 THEN <<>>
    ELSE IF k = 1 THEN ls[1]
    ELSE Join(ls, k - 1) \o <<"\n">> \o ls[k]

LayoutInputs ==
    { Join(ls, Len(ls)) \o end :
        ls \in SeqsUpTo(Lines, MaxLines), end \in {<<>>, <<"\n">>} }

\* the decimal digits of INT_MAX without the last one, so that one more digit
\* gives a number at, just below or above INT_MAX
IntMaxPrefix == <<"2", "1", "4", "7", "4", "8", "3", "6", "4">>

NumberInputs == { IntMaxPrefix \o t : t \in SeqsUpTo({"7", "8", " "}, MaxLen) }

\* every keyword and every two-character operator, alone and after a name
WordInputs ==
    KeyWordNames \cup DualSymbolNames
        \cup { <<"a">> \o w : w \in KeyWordNames \cup DualSymbolNames }

Inputs == FreeInputs \cup LayoutInputs \cup NumberInputs \cup WordInputs

\* the values an uninitialized `char` may hold
Indeterminate == {"'", "\"", "a"}

\* inputs of indented lines that hold a name, a comment or a quote, so that
\* string literals open on one line and close on another
QuoteLines == { Line(n, body) : n \in 0..MaxSpaces, body \in {<<"a">>, <<"#">>, <<"'">>} }

QuoteLayoutInputs ==
    { Join(ls, Len(ls)) \o end :
        ls \in SeqsUpTo(QuoteLines, MaxLines), end \in {<<>>, <<"\n">>} }

----------------------------------------------------------------------------
(* The lexer as a state machine: the constructor, NextToken, CurrentToken. *)

NoRet == [op |-> "none", kind |-> "none"]

Returned(op, t) == [op |-> op, kind |-> "token", token |-> t]

Threw(op, what) == [op |-> op, kind |-> "throw", what |-> what]

\* a lexer constructed over one of the inputs, before the constructor's body
LexInitOver(inputs) ==
    /\ lexer \in { NewLexer(input) : input \in inputs }
    /\ phase = "new"
    /\ ret = NoRet
    /\ tokens = <<>>
    /\ ats = <<>>
    /\ eofCalls = 0
    /\ threw = FALSE
    /\ calls = 0
    /\ program = <<>>
    /\ machine = <<>>
    /\ pc = 0
    /\ exit = "none"

LexInit == LexInitOver(Inputs)

LayoutInit == LexInitOver(QuoteLayoutInputs)

\* the outcome of a call of ReadNextToken that ended in state L
AfterRead(op, L) ==
    /\ lexer' = L
    /\ calls' = calls + 1
    /\ IF L.thrown = "none"
       THEN /\ ret' = Returned(op, L.current_token_)
            /\ tokens' = Append(tokens, L.current_token_)
            /\ ats' = Append(ats, L.at)
            /\ eofCalls' = IF L.current_token_ = Tok("Eof")
                           THEN eofCalls + 1 ELSE eofCalls
            /\ UNCHANGED threw
       ELSE /\ ret' = Threw(op, L.thrown)
            /\ threw' = TRUE
            /\ UNCHANGED <<tokens, ats, eofCalls>>

\* Lexer::Lexer(std::istream&): reads the first token.  When it throws there
\* is no Lexer object.
LexerCtor ==
    /\ phase = "new"
    /\ \E u \in Indeterminate :
          LET L == ReadNextToken([lexer EXCEPT !.thrown = "none"], u, Frames(lexer))
          IN  /\ AfterRead("Lexer", L)
              /\ phase' = IF L.thrown = "none" THEN "ready" ELSE "failed"
    /\ UNCHANGED evalVars

\* Token Lexer::NextToken().  A call that throws leaves the object alive,
\* with its stream advanced and current_token_ as it was.
NextToken ==
    /\ phase = "ready"
    /\ eofCalls < MaxEofCalls
    /\ \E u \in Indeterminate :
          LET L == ReadNextToken([lexer EXCEPT !.thrown = "none"], u, Frames(lexer))
          IN  /\ AfterRead("NextToken", L)
              /\ phase' = IF L.thrown = "no_return" THEN "failed" ELSE "ready"
    /\ UNCHANGED evalVars

\* const Token& Lexer::CurrentToken() const
CurrentToken ==
    /\ phase = "ready"
    /\ ret' = Returned("CurrentToken", lexer.current_token_)
    /\ UNCHANGED <<lexer, phase, tokens, ats, eofCalls, threw, calls>>
    /\ UNCHANGED evalVars

LexNext == LexerCtor \/ NextToken \/ CurrentToken

LexSpec == LexInit /\ [][LexNext]_vars

\* the same lexer over the inputs of indented lines with quotes
LayoutSpec == LayoutInit /\ [][LexNext]_vars

----------------------------------------------------------------------------
(* Properties of the lexer.                                                *)

\* how many tokens of type t the sequence ts holds
Count(ts, t) == Cardinality({ i \in 1..Len(ts) : ts[i].type = t })

\* the indentation level a token sequence leaves open
Level(ts) == Count(ts, "Indent") - Count(ts, "Dedent")

\* C1: in every prefix of the token stream there are at most as many Dedent
\* as Indent tokens, their difference is current_indent_, and once Eof has
\* been produced there are as many Dedent as Indent tokens.
C1_IndentBalance ==
    /\ Count(tokens, "Dedent") <= Count(tokens, "Indent")
    /\ Level(tokens) = lexer.current_indent_
    /\ eofCalls >= 1 => Count(tokens, "Indent") = Count(tokens, "Dedent")

\* Eof was produced after two levels had been opened
C1_Witness ==
    /\ eofCalls >= 1
    /\ Count(tokens, "Indent") >= 2
    /\ Count(tokens, "Dedent") = Count(tokens, "Indent")

\* C2: every call of ReadNextToken returns or throws; Eof is produced after
\* at most 2 * |input| + 2 calls, each of which the caller can make (NextToken
\* is callable whenever the constructor has returned); and once Eof has been
\* produced, CurrentToken and every further NextToken return Eof and no other
\* token is produced.
C2_ReachesEof ==
    /\ [](lexer.thrown # "no_return")
    /\ [](eofCalls = 0 => calls <= 2 * Len(lexer.buf) + 1)
    /\ [][eofCalls >= 1 =>
            /\ ret' = Returned(ret'.op, Tok("Eof"))
            /\ lexer'.current_token_ = Tok("Eof")
            /\ tokens' \in {tokens, Append(tokens, Tok("Eof"))}]_vars

\* Eof was produced after several tokens, again by a further NextToken, and
\* then read through CurrentToken
C2_Witness ==
    /\ eofCalls >= 2
    /\ Len(tokens) >= 5
    /\ tokens[Len(tokens) - 1] = Tok("Eof")
    /\ ret = Returned("CurrentToken", Tok("Eof"))

\* a token that is not one of the structural tokens
Significant(t) == t.type \notin {"Newline", "Indent", "Dedent", "Eof"}

\* m tokens of type t
Rep(t, m) == [i \in 1..m |-> Tok(t)]

\* the stream position at which the line holding position p starts
LineStart(buf, p) ==
    LET S == { i \in 1..p : buf[i] = "\n" }
    IN  IF S = {} THEN 0 ELSE CHOOSE i \in S : \A j \in S : j <= i

\* the index in ts of the first token of the run of Indent and Dedent tokens
\* that ends at index i
RECURSIVE RunStart(_, _)
RunStart(ts, i) ==
    IF i >= 1 /\ ts[i].type \in {"Indent", "Dedent"}
    THEN RunStart(ts, i - 1) ELSE i + 1

\* the last call produced the first significant token of a line, which only
\* spaces precede on that line, and no call has thrown
FirstOfLine ==
    /\ ~threw
    /\ lexer.rule = "ParseToken"
    /\ Len(tokens) = 1 \/ ~Significant(tokens[Len(tokens) - 1])
    /\ \A i \in (LineStart(lexer.buf, lexer.at) + 1)..lexer.at : lexer.buf[i] = " "

\* the Indent and Dedent tokens produced just before the last token
IndentRun == SubSeq(tokens, RunStart(tokens, Len(tokens) - 1), Len(tokens) - 1)

\* the indentation level before IndentRun
LevelBefore == Level(SubSeq(tokens, 1, RunStart(tokens, Len(tokens) - 1) - 1))

\* the number of spaces before the last token on its line
LeadingSpaces == lexer.at - LineStart(lexer.buf, lexer.at)

\* C3: the first significant token of a line with n leading spaces, met at
\* indentation level c, is preceded by exactly n/2 - c Indent tokens when
\* n/2 > c, by exactly c - n/2 Dedent tokens when n/2 < c, by neither when
\* they are equal, and leaves current_indent_ at n/2 (n/2 rounded down).
C3_IndentTokens ==
    FirstOfLine =>
        LET want == LeadingSpaces \div 2
        IN  /\ IndentRun = IF want > LevelBefore
                           THEN Rep("Indent", want - LevelBefore)
                           ELSE Rep("Dedent", LevelBefore - want)
            /\ lexer.current_indent_ = want

\* a line at level 0 after a line at level 2: two Dedent tokens precede its name
C3_Witness ==
    /\ FirstOfLine
    /\ LeadingSpaces \div 2 = 0
    /\ LevelBefore = 2
    /\ IndentRun = Rep("Dedent", 2)

\* What the constructor and the calls of NextToken up to the first Eof do on
\* an input, with u for every indeterminate value: one event per call, the
\* token it produced and current_indent_ after it, or the exception it threw.
\* Each event also records the extent of the input the call took as a token.
Event(R) ==
    [token |-> IF R.thrown = "none" THEN R.current_token_ ELSE Tok(R.thrown),
     current_indent_ |-> R.current_indent_,
     from |-> IF R.rule = "ParseToken" THEN R.at + 1 ELSE R.pos + 1,
     to |-> R.pos]

RECURSIVE EventsFrom(_, _, _, _)
EventsFrom(L, u, n, acc) ==
    LET R == ReadNextToken([L EXCEPT !.thrown = "none"], u, Frames(L))
        evs == Append(acc, Event(R))
    IN  IF n = 0 \/ (R.thrown = "none" /\ R.current_token_ = Tok("Eof"))
           \/ (acc = <<>> /\ R.thrown # "none")
        THEN evs
        ELSE EventsFrom(R, u, n - 1, evs)

Events(input, u) == EventsFrom(NewLexer(input), u, 2 * Len(input) + 2, <<>>)

\* what the caller sees of a sequence of events
Seen(evs) == [i \in 1..Len(evs) |-> <<evs[i].token, evs[i].current_indent_>>]

\* the tokens among a sequence of events
IsToken(e) == e.token.type \notin {"runtime_error", "out_of_range", "no_return"}

TokensOf(evs) ==
    LET sel == SelectSeq(evs, IsToken)
    IN  [i \in 1..Len(sel) |-> sel[i].token]

\* a line of spaces, or of spaces and a comment, with its newline: not
\* indented, indented by an odd number of spaces, and indented deeper than
\* every line of the inputs
BlankLines ==
    { Line(n, body) \o <<"\n">> :
        n \in {0, 1, MaxSpaces + 1}, body \in {<<>>, <<"#", "'">>} }

\* the input with the sequence ins put in after its first p bytes
Insert(input, p, ins) ==
    SubSeq(input, 1, p) \o ins \o SubSeq(input, p + 1, Len(input))

\* the stream positions at which a physical line of the input starts
LineStarts(input) == {0} \cup { i \in 1..Len(input) : input[i] = "\n" }

\* those of them that are not inside a string literal (closed or not), given
\* the events of the input
OutsideLiterals(input, evs) ==
    { p \in LineStarts(input) :
        \A i \in 1..Len(evs) : ~(evs[i].from < p /\ p <= evs[i].to) }

\* whether putting any blank line in at any of the positions leaves what the
\* calls produce as it is in evs
SameWithBlankLineAt(positions, input, evs, u) ==
    LET seen == Seen(evs)
    IN  \A p \in positions : \A bl \in BlankLines :
            Seen(Events(Insert(input, p, bl), u)) = seen

\* the scan of the input has ended: the first Eof was just produced, or the
\* constructor threw
ScanEnded == (eofCalls = 1 /\ ret.op # "CurrentToken") \/ phase = "failed"

LastLine(buf) ==
    LET nls == { i \in 1..Len(buf) : buf[i] = "\n" }
        last == IF nls = {} THEN 0 ELSE CHOOSE i \in nls : \A j \in nls : j <= i
    IN  SubSeq(buf, last + 1, Len(buf))

\* the first character of a line after its leading spaces, EOF when none
FirstAfterSpaces(line) ==
    LET rest == { i \in 1..Len(line) : line[i] # " " }
    IN  IF rest = {} THEN EOF
        ELSE line[CHOOSE i \in rest : \A j \in rest : i <= j]

\* the input ends mid-line: its last line holds something other than spaces
\* and a comment
EndsMidLine(buf) == FirstAfterSpaces(LastLine(buf)) \notin {EOF, "#"}

\* no quote, backslash or 0xFF byte: every newline of the input ends a line
\* and the end of the stream is the end of the input
PlainInput(buf) == \A i \in 1..Len(buf) : buf[i] \notin {"'", "\"", "\\", xFF}

\* the index of the first token that was produced at the end of the input
FirstAtEnd == CHOOSE j \in 1..Len(tokens) :
                /\ ats[j] = Len(lexer.buf)
                /\ \A i \in 1..(j - 1) : ats[i] < Len(lexer.buf)

\* the first Eof was just produced, at the end of the input
EofAtEnd ==
    /\ eofCalls = 1
    /\ ret = Returned(ret.op, Tok("Eof"))
    /\ ret.op # "CurrentToken"
    /\ ats[Len(ats)] = Len(lexer.buf)

\* C5: the tokens produced at the end of the input, one per call, are one
\* Newline when the last token before them is a significant one (the input
\* ends mid-line) and none otherwise, then one Dedent for each indentation
\* level open at that point, then Eof; in an input without quotes, the last
\* token before them is a significant one exactly when the last line holds
\* something other than spaces and a comment.
C5_EndOfInput ==
    EofAtEnd =>
        LET j == FirstAtEnd
            before == SubSeq(tokens, 1, j - 1)
            midLine == j > 1 /\ Significant(tokens[j - 1])
        IN  /\ SubSeq(tokens, j, Len(tokens))
                  = (IF midLine THEN <<Tok("Newline")>> ELSE <<>>)
                        \o Rep("Dedent", Level(before)) \o <<Tok("Eof")>>
            /\ ~threw => calls = Len(tokens)
            /\ lexer.current_indent_ = 0
            /\ PlainInput(lexer.buf) /\ ~threw => (midLine <=> EndsMidLine(lexer.buf))

\* an input that ends mid-line two levels deep was scanned to its Eof:
\* Newline, Dedent, Dedent, Eof were produced at its end
C5_Witness ==
    /\ EofAtEnd
    /\ ~threw
    /\ EndsMidLine(lexer.buf)
    /\ Len(tokens) >= 4
    /\ SubSeq(tokens, Len(tokens) - 3, Len(tokens))
          = <<Tok("Newline"), Tok("Dedent"), Tok("Dedent"), Tok("Eof")>>
    /\ ats[Len(ats) - 3] = Len(lexer.buf)

\* a call of the constructor or of NextToken has just ended
AfterAdvance == phase # "new" /\ ret.op \in {"Lexer", "NextToken"}

\* the character at which the rule that ended the last call began, EOF at
\* the end of the buffer
StartChar == IF lexer.at < Len(lexer.buf) THEN lexer.buf[lexer.at + 1] ELSE EOF

\* whether an unescaped character `first` occurs in buf from index i on,
\* a backslash escaping the character after it
RECURSIVE ClosesFrom(_, _, _)
ClosesFrom(buf, i, first) ==
    IF i > Len(buf) THEN FALSE
    ELSE IF buf[i] = "\\" THEN ClosesFrom(buf, i + 2, first)
    ELSE IF buf[i] = first THEN TRUE
    ELSE ClosesFrom(buf, i + 1, first)

\* the last call advanced onto a string literal that is not terminated
OnUnterminatedLiteral ==
    /\ AfterAdvance
    /\ lexer.rule = "ParseToken"
    /\ StartChar \in {"'", "\""}
    /\ ~ClosesFrom(lexer.buf, lexer.at + 2, StartChar)

\* C6: advancing onto a string literal that is not terminated fails and
\* yields no String token.
C6_UnterminatedFails ==
    OnUnterminatedLiteral => ret.kind = "throw" /\ lexer.thrown = "runtime_error"

\* C6 apart from a quote that is the last byte of the input: advancing onto
\* a literal that is not terminated and has a byte after its opening quote
\* throws std::runtime_error, with the rest of the input consumed.
C6_UnterminatedWithBodyFails ==
    OnUnterminatedLiteral /\ lexer.at + 1 < Len(lexer.buf) =>
        /\ ret = Threw(ret.op, "runtime_error")
        /\ lexer.pos = Len(lexer.buf)

\* the characters that ParseToken does not hand to ParseChar as a single
\* character, two-character operators aside
Classified == Digits \cup Letters \cup {"_", "'", "\"", " ", "\n", "#", EOF}

\* the last call began its rule at a character that starts one of == != <= >=
StartsDualSymbol ==
    /\ lexer.at + 1 < Len(lexer.buf)
    /\ <<StartChar, lexer.buf[lexer.at + 2]>> \in DualSymbolNames

\* C7: a call that fails has advanced onto an unterminated string literal,
\* and a call that meets any other character than a digit, a letter, an
\* underscore, a quote, a space, a newline, '#' or the start of a
\* two-character operator returns Char with that character, consuming it
\* alone.
C7_TokenOrLexError ==
    AfterAdvance =>
        /\ ret.kind = "throw" => OnUnterminatedLiteral
        /\ ( /\ lexer.rule # "ParseIndent"
             /\ StartChar \notin Classified
             /\ ~StartsDualSymbol )
           => /\ ret = Returned(ret.op, TokV("Char", StartChar))
              /\ lexer.pos = lexer.at + 1

\* the longest run of digits of buf from index i on
RECURSIVE DigitRun(_, _)
DigitRun(buf, i) ==
    IF i <= Len(buf) /\ buf[i] \in Digits
    THEN <<buf[i]>> \o DigitRun(buf, i + 1)
    ELSE <<>>

\* a run of digits without its leading zeros, one zero kept
RECURSIVE StripZeros(_)
StripZeros(run) ==
    IF Len(run) > 1 /\ run[1] = "0" THEN StripZeros(Tail(run)) ELSE run

\* the decimal digits of a natural number
RECURSIVE ToDigits(_)
ToDigits(n) ==
    LET d == CHOOSE c \in Digits : DigitValue(c) = n % 10
    IN  IF n < 10 THEN <<d>> ELSE Append(ToDigits(n \div 10), d)

\* the decimal digits of 2^63 - 1
I64MaxDigits ==
    <<"9", "2", "2", "3", "3", "7", "2", "0", "3", "6",
      "8", "5", "4", "7", "7", "5", "8", "0", "7">>

\* whether a is at most b, for digit runs of equal length
RECURSIVE DigitsLeq(_, _)
DigitsLeq(a, b) ==
    IF a = <<>> THEN TRUE
    ELSE IF a[1] # b[1] THEN DigitValue(a[1]) < DigitValue(b[1])
    ELSE DigitsLeq(Tail(a), Tail(b))

\* the value of a digit run lies in the signed 64-bit range
InI64(run) ==
    LET r == StripZeros(run)
    IN  \/ Len(r) < Len(I64MaxDigits)
        \/ Len(r) = Len(I64MaxDigits) /\ DigitsLeq(r, I64MaxDigits)

\* C8: a call that meets a run of digits whose value lies in the signed
\* 64-bit range returns one Number token with that value and consumes
\* exactly the run.
C8_NumberOfRun ==
    ( /\ AfterAdvance
      /\ lexer.rule = "ParseToken"
      /\ StartChar \in Digits
      /\ InI64(DigitRun(lexer.buf, lexer.at + 1)) )
    => /\ ret.kind = "token"
       /\ ret.token.type = "Number"
       /\ ToDigits(ret.token.value) = StripZeros(DigitRun(lexer.buf, lexer.at + 1))
       /\ lexer.pos = lexer.at + Len(DigitRun(lexer.buf, lexer.at + 1))

\* C8 for the runs whose value is at most INT_MAX: the call returns Number
\* with that value and consumes exactly the run; for the longer ones it
\* throws std::out_of_range, the run consumed.
C8_NumberUpToIntMax ==
    ( /\ AfterAdvance
      /\ lexer.rule = "ParseToken"
      /\ StartChar \in Digits )
    => LET run == DigitRun(lexer.buf, lexer.at + 1)
           r == StripZeros(run)
           small == \/ Len(r) < Len(ToDigits(INT_MAX))
                    \/ Len(r) = Len(ToDigits(INT_MAX)) /\ DigitsLeq(r, ToDigits(INT_MAX))
       IN  /\ lexer.pos = lexer.at + Len(run)
           /\ IF small
              THEN /\ ret.kind = "token"
                   /\ ret.token.type = "Number"
                   /\ ToDigits(ret.token.value) = r
              ELSE ret = Threw(ret.op, "out_of_range")

----------------------------------------------------------------------------
(* The evaluator (src/src/statement.cpp, src/src/runtime.cpp).             *)
(*                                                                         *)
(* A state of the evaluator is a record st:                                *)
(*   classes   the class descriptors, by name                              *)
(*   cls_      for every ClassInstance object, the name of its class       *)
(*   order     the order in which this build evaluates function arguments  *)
(*   closures  every Closure object created so far; closures[1] is the     *)
(*             closure of RunMythonProgram, the others are the `args` of   *)
(*             the calls of ClassInstance::Call                            *)
(*   fields    for every ClassInstance object, its closure_                *)
(*   out       the characters written to the output stream of the context  *)
(*   sig       the exception in flight, by its C++ type: "none",           *)
(*             "ObjectHolder" (thrown by Return), "runtime_error",         *)
(*             "abort" (a failed assert), "undefined" (signed overflow)    *)
(*   val       what the last function returned, or the ObjectHolder thrown *)
(*   stack     history: the closures of the calls in progress, outermost   *)
(*             first                                                       *)
(*   from      history: the call in which the exception in flight began    *)
(*   trace     history: the events of the run, in order                    *)
(* A ClassInstance object is identified by the NewInstance node that       *)
(* holds it.  A closure is a function from names to handles.               *)

\* runtime::ObjectHolder: the empty handle, or a handle to an object
ObjectHolder_None == [kind |-> "None"]

Number(n) == [kind |-> "Number", value |-> n]

String(s) == [kind |-> "String", value |-> s]

Bool(b) == [kind |-> "Bool", value |-> b]

Class(name) == [kind |-> "Class", name |-> name]

ClassInstance(id) == [kind |-> "ClassInstance", id |-> id]

\* INT_MIN
INT_MIN == -INT_MAX - 1

\* a reference to a Closure: closures[at], or the closure_ of instance `at`
Local(k) == [in |-> "closures", at |-> k]

Fields(id) == [in |-> "fields", at |-> id]

\* the closure a reference designates
Deref(st, c) == IF c.in = "closures" THEN st.closures[c.at] ELSE st.fields[c.at]

\* closure[name] = v
Store(st, c, name, v) ==
    LET f == Deref(st, c)
        g == [x \in DOMAIN f \cup {name} |-> IF x = name THEN v ELSE f[x]]
    IN  IF c.in = "closures"
        THEN [st EXCEPT !.closures[c.at] = g]
        ELSE [st EXCEPT !.fields[c.at] = g]

\* a function returns v
Ok(st, v) == [st EXCEPT !.sig = "none", !.val = v]

\* throw std::runtime_error(...), with the history of the run: the call in
\* which it is thrown
ThrowRuntimeError(st) ==
    [st EXCEPT !.sig = "runtime_error", !.val = ObjectHolder_None,
               !.from = st.stack[Len(st.stack)],
               !.trace = Append(@, [ev |-> "error", frame |-> st.stack[Len(st.stack)]])]

\* throw runtime_error("Division by zero"s), the message in the history
ThrowDivisionByZero(st) ==
    [st EXCEPT !.sig = "runtime_error", !.val = ObjectHolder_None,
               !.from = st.stack[Len(st.stack)],
               !.trace = Append(@, [ev |-> "error", frame |-> st.stack[Len(st.stack)],
                                    what |-> "Division by zero"])]

\* ObjectHolder::AssertIsValid() on an empty handle
AssertFails(st) ==
    [st EXCEPT !.sig = "abort", !.val = ObjectHolder_None,
               !.from = st.stack[Len(st.stack)]]

\* signed integer overflow
Undefined(st) ==
    [st EXCEPT !.sig = "undefined", !.val = ObjectHolder_None,
               !.from = st.stack[Len(st.stack)]]

\* os << text, for the output stream of the context
Write(st, text) == [st EXCEPT !.out = @ \o text]

\* history: the call in progress, and an event of it
Top(st) == st.stack[Len(st.stack)]

Log(st, e) == [st EXCEPT !.trace = Append(@, e)]

\* what a run has changed that outlives a call
Effects(st) == [out |-> st.out, fields |-> st.fields, closures |-> st.closures]

\* the characters of a name
Spell(name) ==
    CASE name = "A" -> <<"A">>
      [] name = "B" -> <<"B">>
      [] OTHER -> <<"?">>

\* os << int
IntText(n) ==
    IF n >= 0 THEN ToDigits(n)
    ELSE IF n = INT_MIN THEN <<"-">> \o ToDigits(INT_MAX \div 10) \o <<"8">>
    ELSE <<"-">> \o ToDigits(-n)

\* os << this: the address of an object, opaque
Address(id) == <<"0", "x">> \o ToDigits(id)

\* the position of a character in the character set, for the characters of
\* the strings of the programs
CharCode(c) ==
    CASE c = " " -> 32
      [] c \in Digits -> 48 + DigitValue(c)
      [] c = "A" -> 65 [] c = "B" -> 66 [] c = "C" -> 67
      [] c = "F" -> 70 [] c = "N" -> 78 [] c = "T" -> 84
      [] c = "a" -> 97 [] c = "b" -> 98 [] c = "c" -> 99
      [] c = "e" -> 101 [] c = "l" -> 108 [] c = "n" -> 110
      [] c = "o" -> 111 [] c = "p" -> 112 [] c = "q" -> 113
      [] c = "r" -> 114 [] c = "s" -> 115 [] c = "u" -> 117
      [] c = "x" -> 120
      [] OTHER -> 63

\* std::less on std::string
RECURSIVE StringLess(_, _)
StringLess(a, b) ==
    IF b = <<>> THEN FALSE
    ELSE IF a = <<>> THEN TRUE
    ELSE IF a[1] # b[1] THEN CharCode(a[1]) < CharCode(b[1])
    ELSE StringLess(Tail(a), Tail(b))

\* bool IsTrue(const ObjectHolder&)
IsTrue(object) ==
    CASE object.kind = "Bool" -> object.value = TRUE
      [] object.kind = "Number" -> ~(object.value = 0)
      [] object.kind = "String" -> ~(object.value = <<>>)
      [] OTHER -> FALSE

\* no method: the null pointer Class::GetMethod returns
nullptr == [name |-> "nullptr"]

\* a lookup that prefers the method of the farthest ancestor
RECURSIVE GetMethod_ParentFirst(_, _, _)
GetMethod_ParentFirst(classes, cls, name) ==
    LET methods_ == classes[cls].methods_
        found == { i \in 1..Len(methods_) : methods_[i].name = name }
        above == IF classes[cls].parent_ # "nullptr"
                 THEN GetMethod_ParentFirst(classes, classes[cls].parent_, name)
                 ELSE nullptr
    IN  CASE above # nullptr -> above
          [] found # {} -> methods_[CHOOSE i \in found : \A j \in found : i <= j]
          [] OTHER -> nullptr

\* const Method* Class::GetMethod(const std::string&) const: the first
\* method of that name of the class itself, else of its parent
RECURSIVE GetMethod(_, _, _)
GetMethod(classes, cls, name) ==
    LET methods_ == classes[cls].methods_
        found == { i \in 1..Len(methods_) : methods_[i].name = name }
    IN  IF found # {}
        THEN methods_[CHOOSE i \in found : \A j \in found : i <= j]
        ELSE IF classes[cls].parent_ # "nullptr"
             THEN GetMethod(classes, classes[cls].parent_, name)
             ELSE nullptr

\* bool ClassInstance::HasMethod(const std::string&, size_t) const
HasMethod(st, id, method, argument_count) ==
    LET mtd == GetMethod(st.classes, st.cls_[id], method)
    IN  mtd # nullptr /\ Len(mtd.formal_params) = argument_count

\* the Closure `args` that ClassInstance::Call builds: self, then every
\* formal parameter in order, a later binding of a name replacing an earlier
Args(id, formal_params, actual_args) ==
    [ x \in {"self"} \cup { formal_params[i] : i \in 1..Len(formal_params) } |->
        LET at == { i \in 1..Len(formal_params) : formal_params[i] = x }
        IN  IF at = {} THEN ClassInstance(id)
            ELSE actual_args[CHOOSE i \in at : \A j \in at : j <= i] ]

\* int / int: the quotient, truncated toward zero
Quot(a, b) ==
    LET Floor(x, y) == x \div y
        Toward0(x, y) == IF x < 0 /\ x % y # 0 THEN Floor(x, y) + 1 ELSE Floor(x, y)
    IN  CASE b > 0 -> Toward0(a, b)
          [] b = INT_MIN -> IF a = INT_MIN THEN 1 ELSE 0
          [] b < 0 -> -Toward0(a, -b)

\* the int result of an arithmetic operation whose operands are a and b is
\* undefined when it does not fit an int
Overflows(operation, a, b) ==
    CASE operation = "+" -> (b > 0 /\ a > INT_MAX - b) \/ (b < 0 /\ a < INT_MIN - b)
      [] operation = "-" -> (b < 0 /\ a > INT_MAX + b) \/ (b > 0 /\ a < INT_MIN + b)
      [] operation = "*" ->
            \/ a > 0 /\ b > 0 /\ a > Quot(INT_MAX, b)
            \/ a > 0 /\ b < 0 /\ b < Quot(INT_MIN, a)
            \/ a < 0 /\ b > 0 /\ a < Quot(INT_MIN, b)
            \/ a < 0 /\ b < 0 /\ b < Quot(INT_MAX, a)
      [] operation = "/" -> a = INT_MIN /\ b = -1

\* a operation b, for ints
Apply(operation, a, b) ==
    CASE operation = "+" -> a + b
      [] operation = "-" -> a - b
      [] operation = "*" -> a * b
      [] operation = "/" -> Quot(a, b)

\* the names of the methods that the runtime calls by itself
STR_METHOD == "__str__"

EQ_METHOD == "__eq__"

LESS_METHOD == "__lt__"

ADD_METHOD == "__add__"

INIT_METHOD == "__init__"

\* the characters of "None"
EMPTY_OBJECT == <<"N", "o", "n", "e">>

RECURSIVE Execute(_, _, _)
RECURSIVE ClassInstance_Call(_, _, _, _)
RECURSIVE Object_Print(_, _)

\* a Comp whose less on Numbers is <=
Comp_NumberLeq(lhs, rhs, pred, st) ==
    IF lhs.kind = rhs.kind /\ lhs.kind \in {"Bool", "Number", "String"}
    THEN Ok(st, IF pred = "equal_to" THEN lhs.value = rhs.value
                ELSE CASE lhs.kind = "Bool" -> ~lhs.value /\ rhs.value
                       [] lhs.kind = "Number" -> lhs.value <= rhs.value
                       [] lhs.kind = "String" -> StringLess(lhs.value, rhs.value))
    ELSE ThrowRuntimeError(st)

\* bool Comp(lhs, rhs, pred): val is the bool it returns
Comp(lhs, rhs, pred, st) ==
    IF lhs.kind = rhs.kind /\ lhs.kind \in {"Bool", "Number", "String"}
    THEN Ok(st, IF pred = "equal_to" THEN lhs.value = rhs.value
                ELSE CASE lhs.kind = "Bool" -> ~lhs.value /\ rhs.value
                       [] lhs.kind = "Number" -> lhs.value < rhs.value
                       [] lhs.kind = "String" -> StringLess(lhs.value, rhs.value))
    ELSE ThrowRuntimeError(st)

\* an Equal for which two empty handles do not compare
Equal_NoneFails(lhs, rhs, st) ==
    LET s1 == Comp(lhs, rhs, "equal_to", st)
        s2 == ClassInstance_Call(lhs.id, EQ_METHOD, <<rhs>>, st)
    IN  CASE s1.sig # "runtime_error" -> s1
          [] lhs.kind = "ClassInstance" /\ s2.sig # "none" -> s2
          [] lhs.kind = "ClassInstance" -> Ok(s2, IsTrue(s2.val))
          [] OTHER -> s1

\* bool Equal(lhs, rhs, context)
Equal(lhs, rhs, st) ==
    LET s1 == Comp(lhs, rhs, "equal_to", st)
        s2 == ClassInstance_Call(lhs.id, EQ_METHOD, <<rhs>>, st)
    IN  CASE s1.sig # "runtime_error" -> s1
          [] lhs.kind = "ClassInstance" /\ s2.sig # "none" -> s2
          [] lhs.kind = "ClassInstance" -> Ok(s2, IsTrue(s2.val))
          [] lhs = ObjectHolder_None /\ rhs = ObjectHolder_None -> Ok(st, TRUE)
          [] OTHER -> s1

\* bool Less(lhs, rhs, context)
Less(lhs, rhs, st) ==
    LET s1 == Comp(lhs, rhs, "less", st)
        s2 == ClassInstance_Call(lhs.id, LESS_METHOD, <<rhs>>, st)
    IN  CASE s1.sig # "runtime_error" -> s1
          [] lhs.kind = "ClassInstance" /\ s2.sig # "none" -> s2
          [] lhs.kind = "ClassInstance" -> Ok(s2, IsTrue(s2.val))
          [] OTHER -> s1

\* the bool a function returned, negated
Negated(st) == IF st.sig # "none" THEN st ELSE Ok(st, ~st.val)

NotEqual(lhs, rhs, st) == Negated(Equal(lhs, rhs, st))

\* a Greater that evaluates Equal whatever Less gives
Greater_Both(lhs, rhs, st) ==
    LET s1 == Less(lhs, rhs, st)
        s2 == Equal(lhs, rhs, s1)
    IN  CASE s1.sig # "none" -> s1
          [] s2.sig # "none" -> s2
          [] OTHER -> Ok(s2, ~s1.val /\ ~s2.val)

\* !(Less(lhs, rhs, context) || Equal(lhs, rhs, context))
Greater(lhs, rhs, st) ==
    LET s1 == Less(lhs, rhs, st)
    IN  IF s1.sig # "none" THEN s1
        ELSE IF s1.val THEN Ok(s1, FALSE)
        ELSE Negated(Equal(lhs, rhs, s1))

LessOrEqual(lhs, rhs, st) == Negated(Greater(lhs, rhs, st))

GreaterOrEqual(lhs, rhs, st) == Negated(Less(lhs, rhs, st))

\* the call of a Comparison's cmp_
Comparator(cmp_, lhs, rhs, st) ==
    CASE cmp_ = "Equal" -> Equal(lhs, rhs, st)
      [] cmp_ = "NotEqual" -> NotEqual(lhs, rhs, st)
      [] cmp_ = "Less" -> Less(lhs, rhs, st)
      [] cmp_ = "Greater" -> Greater(lhs, rhs, st)
      [] cmp_ = "LessOrEqual" -> LessOrEqual(lhs, rhs, st)
      [] cmp_ = "GreaterOrEqual" -> GreaterOrEqual(lhs, rhs, st)

\* void ClassInstance::Print(std::ostream&, Context&): val is the text
\* written to os
ClassInstance_Print(id, st) ==
    LET s1 == ClassInstance_Call(id, STR_METHOD, <<>>, st)
    IN  CASE ~HasMethod(st, id, STR_METHOD, 0) -> Ok(st, Address(id))
          [] s1.sig # "none" -> s1
          [] s1.val = ObjectHolder_None -> AssertFails(s1)
          [] OTHER -> Object_Print(s1.val, s1)

\* virtual void Object::Print(std::ostream&, Context&): val is the text
\* written to os
Object_Print(object, st) ==
    CASE object.kind = "Number" -> Ok(st, IntText(object.value))
      [] object.kind = "String" -> Ok(st, object.value)
      [] object.kind = "Bool" ->
            Ok(st, IF object.value THEN <<"T", "r", "u", "e">>
                   ELSE <<"F", "a", "l", "s", "e">>)
      [] object.kind = "Class" ->
            Ok(st, <<"C", "l", "a", "s", "s", " ">> \o Spell(object.name))
      [] object.kind = "ClassInstance" -> ClassInstance_Print(object.id, st)

\* for (auto &arg : args_) actual_args.push_back(arg->Execute(closure, context)):
\* val is actual_args
RECURSIVE ExecuteAll(_, _, _, _, _)
ExecuteAll(args_, i, c, st, actual_args) ==
    IF i > Len(args_) THEN Ok(st, actual_args)
    ELSE LET s1 == Execute(args_[i], c, st)
         IN  IF s1.sig # "none" THEN s1
             ELSE ExecuteAll(args_, i + 1, c, s1, Append(actual_args, s1.val))

\* ValueStatement<T>::Execute
ValueStatement_Execute(node, c, st) == Ok(st, node.value_)

\* None::Execute
None_Execute(node, c, st) == Ok(st, ObjectHolder_None)

\* VariableValue::VariableValue(std::vector<std::string> dotted_ids)
VariableValue(dotted_ids) ==
    IF Len(dotted_ids) > 0
    THEN [type |-> "VariableValue", var_name_ |-> dotted_ids[1], tail_ |-> Tail(dotted_ids)]
    ELSE [type |-> "VariableValue", var_name_ |-> "", tail_ |-> <<>>]

RECURSIVE VariableValue_Execute(_, _, _)
VariableValue_Execute(node, c, st) ==
    IF node.var_name_ \in DOMAIN Deref(st, c)
    THEN LET result == Deref(st, c)[node.var_name_]
         IN  IF Len(node.tail_) > 0
             THEN IF result.kind = "ClassInstance"
                  THEN VariableValue_Execute(VariableValue(node.tail_), Fields(result.id), st)
                  ELSE ThrowRuntimeError(st)
             ELSE Ok(st, result)
    ELSE ThrowRuntimeError(st)

\* an Assignment that binds the name before it evaluates the right side
Assignment_BindsFirst(node, c, st) ==
    LET s0 == Store(st, c, node.var_, ObjectHolder_None)
        s1 == Execute(node.rv_, c, s0)
    IN  IF s1.sig # "none" THEN s1
        ELSE Ok(Store(s1, c, node.var_, s1.val), s1.val)

\* Assignment::Execute
Assignment_Execute(node, c, st) ==
    LET s1 == Execute(node.rv_, c, st)
    IN  IF s1.sig # "none" THEN s1
        ELSE Ok(Store(s1, c, node.var_, s1.val), s1.val)

\* the loop of Print::Execute from the i-th argument on
RECURSIVE Print_Loop(_, _, _, _)
Print_Loop(args_, i, c, st) ==
    LET s0 == IF i > 1 THEN Write(st, <<" ">>) ELSE st
        s1 == Execute(args_[i], c, s0)
        s2 == Object_Print(s1.val, s1)
    IN  CASE i > Len(args_) -> st
          [] s1.sig # "none" -> s1
          [] s1.val = ObjectHolder_None ->
                Print_Loop(args_, i + 1, c, Write(s1, EMPTY_OBJECT))
          [] s2.sig # "none" -> s2
          [] OTHER -> Print_Loop(args_, i + 1, c, Write(s2, s2.val))

\* Print::Execute
Print_Execute(node, c, st) ==
    LET s1 == Print_Loop(node.args_, 1, c, Ok(st, ObjectHolder_None))
    IN  IF s1.sig # "none" THEN s1
        ELSE Ok(Write(s1, <<"\n">>), ObjectHolder_None)

\* a MethodCall that evaluates its arguments before it looks at the object
MethodCall_ArgumentsFirst(node, c, st) ==
    LET s1 == Execute(node.object_, c, st)
        s2 == ExecuteAll(node.args_, 1, c, s1, <<>>)
    IN  CASE s1.sig # "none" -> s1
          [] s2.sig # "none" -> s2
          [] s1.val.kind # "ClassInstance" -> ThrowRuntimeError(s2)
          [] OTHER -> ClassInstance_Call(s1.val.id, node.method_, s2.val, s2)

\* MethodCall::Execute
MethodCall_Execute(node, c, st) ==
    LET s1 == Execute(node.object_, c, st)
        s2 == ExecuteAll(node.args_, 1, c, s1, <<>>)
    IN  CASE s1.sig # "none" -> s1
          [] s1.val.kind # "ClassInstance" -> ThrowRuntimeError(s1)
          [] s2.sig # "none" -> s2
          [] OTHER -> ClassInstance_Call(s1.val.id, node.method_, s2.val, s2)

\* a Stringify that also writes the text to the output
Stringify_Writes(node, c, st) ==
    LET s1 == Execute(node.argument_, c, st)
        s2 == Object_Print(s1.val, s1)
    IN  CASE s1.sig # "none" -> s1
          [] s1.val = ObjectHolder_None -> Ok(s1, String(EMPTY_OBJECT))
          [] s2.sig # "none" -> s2
          [] OTHER -> Ok(Write(s2, s2.val), String(s2.val))

\* Stringify::Execute
Stringify_Execute(node, c, st) ==
    LET s1 == Execute(node.argument_, c, st)
        s2 == Object_Print(s1.val, s1)
    IN  CASE s1.sig # "none" -> s1
          [] s1.val = ObjectHolder_None -> Ok(s1, String(EMPTY_OBJECT))
          [] s2.sig # "none" -> s2
          [] OTHER -> Ok(s2, String(s2.val))

\* BINARY_OPERATION(runtime::Number, operation), for two Numbers
Arithmetic(operation, l, r, st) ==
    IF Overflows(operation, l.value, r.value) THEN Undefined(st)
    ELSE Ok(st, Number(Apply(operation, l.value, r.value)))

BothAre(kind, l, r) == l.kind = kind /\ r.kind = kind

\* Add::Execute
Add_Execute(node, c, st) ==
    LET s1 == Execute(node.lhs_, c, st)
        s2 == Execute(node.rhs_, c, s1)
        left_holder == s1.val
        right_holder == s2.val
    IN  CASE s1.sig # "none" -> s1
          [] s2.sig # "none" -> s2
          [] BothAre("Number", left_holder, right_holder) ->
                Arithmetic("+", left_holder, right_holder, s2)
          [] BothAre("String", left_holder, right_holder) ->
                Ok(s2, String(left_holder.value \o right_holder.value))
          [] left_holder.kind = "ClassInstance" ->
                ClassInstance_Call(left_holder.id, ADD_METHOD, <<right_holder>>, s2)
          [] OTHER -> ThrowRuntimeError(s2)

\* Sub::Execute
Sub_Execute(node, c, st) ==
    LET s1 == Execute(node.lhs_, c, st)
        s2 == Execute(node.rhs_, c, s1)
    IN  CASE s1.sig # "none" -> s1
          [] s2.sig # "none" -> s2
          [] BothAre("Number", s1.val, s2.val) -> Arithmetic("-", s1.val, s2.val, s2)
          [] OTHER -> ThrowRuntimeError(s2)

\* Mult::Execute
Mult_Execute(node, c, st) ==
    LET s1 == Execute(node.lhs_, c, st)
        s2 == Execute(node.rhs_, c, s1)
    IN  CASE s1.sig # "none" -> s1
          [] s2.sig # "none" -> s2
          [] BothAre("Number", s1.val, s2.val) -> Arithmetic("*", s1.val, s2.val, s2)
          [] OTHER -> ThrowRuntimeError(s2)

\* Div::Execute
Div_Execute(node, c, st) ==
    LET s1 == Execute(node.lhs_, c, st)
        s2 == Execute(node.rhs_, c, s1)
        right == s2.val
    IN  CASE s1.sig # "none" -> s1
          [] s2.sig # "none" -> s2
          [] right.kind = "Number" /\ right.value = 0 -> ThrowDivisionByZero(s2)
          [] BothAre("Number", s1.val, right) -> Arithmetic("/", s1.val, right, s2)
          [] OTHER -> ThrowRuntimeError(s2)

\* Compound::Execute that goes on with its next statement when a statement
\* throws the handle of a Return
RECURSIVE Compound_GoesOn(_, _, _, _)
Compound_GoesOn(args_, i, c, st) ==
    IF i > Len(args_) THEN Ok(st, ObjectHolder_None)
    ELSE LET s1 == Execute(args_[i], c, st)
         IN  IF s1.sig \notin {"none", "ObjectHolder"} THEN s1
             ELSE Compound_GoesOn(args_, i + 1, c, Ok(s1, ObjectHolder_None))

\* the loop of Compound::Execute from the i-th statement on
RECURSIVE Compound_Loop(_, _, _, _)
Compound_Loop(args_, i, c, st) ==
    IF i > Len(args_) THEN Ok(st, ObjectHolder_None)
    ELSE LET s1 == Execute(args_[i], c, st)
         IN  IF s1.sig # "none" THEN s1
             ELSE Compound_Loop(args_, i + 1, c, s1)

\* Compound::Execute
Compound_Execute(node, c, st) == Compound_Loop(node.args_, 1, c, st)

\* Return::Execute
Return_Execute(node, c, st) ==
    LET s1 == Execute(node.statement_, c, st)
    IN  IF s1.sig # "none" THEN s1
        ELSE [Log(s1, [ev |-> "throw", frame |-> Top(s1), value |-> s1.val,
                       effects |-> Effects(s1)])
                EXCEPT !.sig = "ObjectHolder", !.from = Top(s1)]

\* ClassDefinition::Execute
ClassDefinition_Execute(node, c, st) ==
    Ok(Store(st, c, node.cls_.name, node.cls_), ObjectHolder_None)

\* FieldAssignment::Execute
FieldAssignment_Execute(node, c, st) ==
    LET s1 == VariableValue_Execute(node.object_, c, st)
    IN  IF s1.sig # "none" THEN s1
        ELSE IF s1.val.kind = "ClassInstance"
        THEN LET s2 == Execute(node.rv_, c, s1)
             IN  IF s2.sig # "none" THEN s2
                 ELSE Ok(Store(s2, Fields(s1.val.id), node.field_name_, s2.val), s2.val)
        ELSE ThrowRuntimeError(s1)

\* IfElse::Execute
IfElse_Execute(node, c, st) ==
    LET s1 == Execute(node.condition_, c, st)
    IN  CASE s1.sig # "none" -> s1
          [] IsTrue(s1.val) -> Execute(node.if_body_, c, s1)
          [] node.else_body_ # nullptr -> Execute(node.else_body_, c, s1)
          [] OTHER -> Ok(s1, ObjectHolder_None)

\* Or::Execute
Or_Execute(node, c, st) ==
    LET s1 == Execute(node.lhs_, c, st)
    IN  IF s1.sig # "none" THEN s1
        ELSE IF IsTrue(s1.val) THEN Ok(s1, Bool(TRUE))
        ELSE LET s2 == Execute(node.rhs_, c, s1)
             IN  IF s2.sig # "none" THEN s2 ELSE Ok(s2, Bool(IsTrue(s2.val)))

\* an And that evaluates both operands whatever the left one is
And_Both(node, c, st) ==
    LET s1 == Execute(node.lhs_, c, st)
        s2 == Execute(node.rhs_, c, s1)
    IN  CASE s1.sig # "none" -> s1
          [] s2.sig # "none" -> s2
          [] OTHER -> Ok(s2, Bool(IsTrue(s1.val) /\ IsTrue(s2.val)))

\* And::Execute
And_Execute(node, c, st) ==
    LET s1 == Execute(node.lhs_, c, st)
    IN  IF s1.sig # "none" THEN s1
        ELSE IF IsTrue(s1.val)
        THEN LET s2 == Execute(node.rhs_, c, s1)
             IN  IF s2.sig # "none" THEN s2 ELSE Ok(s2, Bool(IsTrue(s2.val)))
        ELSE Ok(s1, Bool(FALSE))

\* Not::Execute
Not_Execute(node, c, st) ==
    LET s1 == Execute(node.argument_, c, st)
    IN  IF s1.sig # "none" THEN s1 ELSE Ok(s1, Bool(~IsTrue(s1.val)))

\* Comparison::Execute.  The two operands are arguments of one function
\* call: the build evaluates them in either order.
Comparison_Execute(node, c, st) ==
    LET lhsFirst == st.order = "left to right"
        s1 == Execute(IF lhsFirst THEN node.lhs_ ELSE node.rhs_, c, st)
        s2 == Execute(IF lhsFirst THEN node.rhs_ ELSE node.lhs_, c, s1)
        s3 == Comparator(node.cmp_,
                         IF lhsFirst THEN s1.val ELSE s2.val,
                         IF lhsFirst THEN s2.val ELSE s1.val, s2)
    IN  CASE s1.sig # "none" -> s1
          [] s2.sig # "none" -> s2
          [] s3.sig # "none" -> s3
          [] OTHER -> Ok(s3, Bool(s3.val))

\* NewInstance::Execute.  The node holds the instance it returns.
NewInstance_Execute(node, c, st) ==
    IF HasMethod(st, node.class_instance_, INIT_METHOD, Len(node.args_))
    THEN LET s1 == ExecuteAll(node.args_, 1, c, st, <<>>)
             s2 == ClassInstance_Call(node.class_instance_, INIT_METHOD, s1.val, s1)
         IN  CASE s1.sig # "none" -> s1
               [] s2.sig # "none" -> s2
               [] OTHER -> Ok(s2, ClassInstance(node.class_instance_))
    ELSE Ok(st, ClassInstance(node.class_instance_))

\* MethodBody::Execute without its catch clauses
MethodBody_NoCatch(node, c, st) ==
    LET s1 == Execute(node.body_, c, st)
    IN  IF s1.sig = "none"
        THEN Ok(Log(s1, [ev |-> "completed", frame |-> Top(s1)]), ObjectHolder_None)
        ELSE s1

\* MethodBody::Execute whose catch clause receives every exception
MethodBody_CatchAll(node, c, st) ==
    LET s1 == Execute(node.body_, c, st)
    IN  CASE s1.sig = "none" ->
                Ok(Log(s1, [ev |-> "completed", frame |-> Top(s1)]), ObjectHolder_None)
          [] OTHER ->
                Ok(Log(s1, [ev |-> "catch", frame |-> Top(s1), from |-> s1.from,
                            value |-> s1.val]),
                   s1.val)

\* MethodBody::Execute
MethodBody_Execute(node, c, st) ==
    LET s1 == Execute(node.body_, c, st)
    IN  CASE s1.sig = "none" ->
                Ok(Log(s1, [ev |-> "completed", frame |-> Top(s1)]), ObjectHolder_None)
          [] s1.sig = "ObjectHolder" ->
                Ok(Log(s1, [ev |-> "catch", frame |-> Top(s1), from |-> s1.from,
                            value |-> s1.val]),
                   s1.val)
          [] OTHER -> s1

\* history: a node is entered in the call in progress
Enter(node, st) == Log(st, [ev |-> "Execute", frame |-> Top(st), node |-> node])

\* the virtual call statement->Execute(closure, context)
Execute(node, c, st) ==
    CASE node.type = "ValueStatement" -> ValueStatement_Execute(node, c, Enter(node, st))
      [] node.type = "None" -> None_Execute(node, c, Enter(node, st))
      [] node.type = "VariableValue" -> VariableValue_Execute(node, c, Enter(node, st))
      [] node.type = "Assignment" -> Assignment_Execute(node, c, Enter(node, st))
      [] node.type = "Print" -> Print_Execute(node, c, Enter(node, st))
      [] node.type = "MethodCall" -> MethodCall_Execute(node, c, Enter(node, st))
      [] node.type = "Stringify" -> Stringify_Execute(node, c, Enter(node, st))
      [] node.type = "Add" -> Add_Execute(node, c, Enter(node, st))
      [] node.type = "Sub" -> Sub_Execute(node, c, Enter(node, st))
      [] node.type = "Mult" -> Mult_Execute(node, c, Enter(node, st))
      [] node.type = "Div" -> Div_Execute(node, c, Enter(node, st))
      [] node.type = "Compound" -> Compound_Execute(node, c, Enter(node, st))
      [] node.type = "Return" -> Return_Execute(node, c, Enter(node, st))
      [] node.type = "ClassDefinition" -> ClassDefinition_Execute(node, c, Enter(node, st))
      [] node.type = "FieldAssignment" -> FieldAssignment_Execute(node, c, Enter(node, st))
      [] node.type = "IfElse" -> IfElse_Execute(node, c, Enter(node, st))
      [] node.type = "Or" -> Or_Execute(node, c, Enter(node, st))
      [] node.type = "And" -> And_Execute(node, c, Enter(node, st))
      [] node.type = "Not" -> Not_Execute(node, c, Enter(node, st))
      [] node.type = "Comparison" -> Comparison_Execute(node, c, Enter(node, st))
      [] node.type = "NewInstance" -> NewInstance_Execute(node, c, Enter(node, st))
      [] node.type = "MethodBody" -> MethodBody_Execute(node, c, Enter(node, st))

\* history: the call of a method begins, with its Closure `args`
Begin(id, method, actual_args, st) ==
    LET mtd == GetMethod(st.classes, st.cls_[id], method)
        k == Len(st.closures) + 1
    IN  Log([st EXCEPT !.closures = Append(@, Args(id, mtd.formal_params, actual_args)),
                       !.stack = Append(@, k)],
            [ev |-> "Call", frame |-> k, caller |-> Top(st), self |-> id,
             method |-> method])

\* history: the call in progress ends, by a value or by an exception
End(st) ==
    [st EXCEPT !.stack = SubSeq(@, 1, Len(@) - 1),
               !.trace = IF st.sig = "none"
                         THEN Append(@, [ev |-> "return", frame |-> Top(st),
                                         value |-> st.val, effects |-> Effects(st)])
                         ELSE @]

\* ObjectHolder ClassInstance::Call(method, actual_args, context)
ClassInstance_Call(id, method, actual_args, st) ==
    IF HasMethod(st, id, method, Len(actual_args))
    THEN End(Execute(GetMethod(st.classes, st.cls_[id], method).body,
                     Local(Len(st.closures) + 1), Begin(id, method, actual_args, st)))
    ELSE ThrowRuntimeError(st)

----------------------------------------------------------------------------
(* Programs: the ASTs the parser builds.  The parser is not part of the    *)
(* sources; every method body it builds is a MethodBody node.              *)

NumericConst(n) == [type |-> "ValueStatement", value_ |-> Number(n)]

StringConst(s) == [type |-> "ValueStatement", value_ |-> String(s)]

BoolConst(b) == [type |-> "ValueStatement", value_ |-> Bool(b)]

Assignment(var, rv) == [type |-> "Assignment", var_ |-> var, rv_ |-> rv]

FieldAssignment(object, field_name, rv) ==
    [type |-> "FieldAssignment", object_ |-> object, field_name_ |-> field_name, rv_ |-> rv]

PrintStatement(args) == [type |-> "Print", args_ |-> args]

MethodCall(object, method, args) ==
    [type |-> "MethodCall", object_ |-> object, method_ |-> method, args_ |-> args]

NewInstance(id, args) == [type |-> "NewInstance", class_instance_ |-> id, args_ |-> args]

Stringify(argument) == [type |-> "Stringify", argument_ |-> argument]

Add(lhs, rhs) == [type |-> "Add", lhs_ |-> lhs, rhs_ |-> rhs]

Sub(lhs, rhs) == [type |-> "Sub", lhs_ |-> lhs, rhs_ |-> rhs]

Mult(lhs, rhs) == [type |-> "Mult", lhs_ |-> lhs, rhs_ |-> rhs]

Div(lhs, rhs) == [type |-> "Div", lhs_ |-> lhs, rhs_ |-> rhs]

Or(lhs, rhs) == [type |-> "Or", lhs_ |-> lhs, rhs_ |-> rhs]

And(lhs, rhs) == [type |-> "And", lhs_ |-> lhs, rhs_ |-> rhs]

Not(argument) == [type |-> "Not", argument_ |-> argument]

None == [type |-> "None"]

Compound(args) == [type |-> "Compound", args_ |-> args]

Return(statement) == [type |-> "Return", statement_ |-> statement]

ClassDefinition(cls) == [type |-> "ClassDefinition", cls_ |-> cls]

IfElse(condition, if_body, else_body) ==
    [type |-> "IfElse", condition_ |-> condition, if_body_ |-> if_body,
     else_body_ |-> else_body]

Comparison(cmp, lhs, rhs) ==
    [type |-> "Comparison", cmp_ |-> cmp, lhs_ |-> lhs, rhs_ |-> rhs]

MethodBody(body) == [type |-> "MethodBody", body_ |-> body]

\* runtime::Method, its body the MethodBody of the statements
Method(name, formal_params, statements) ==
    [name |-> name, formal_params |-> formal_params,
     body |-> MethodBody(Compound(statements))]

\* deepest recursion of the recursive method of the programs
MaxDepth == 1

Self == VariableValue(<<"self">>)

Say(c) == PrintStatement(<<StringConst(<<c>>)>>)

\* the ways a called method ends: it returns a value at once, after a
\* statement and before another, from a branch, never, after assigning a
\* field, or its Return fails
Styles == {"return", "after", "branch", "none", "field", "error"}

Callee(style) ==
    CASE style = "return" -> <<Return(NumericConst(7))>>
      [] style = "after" -> <<Say("c"), Return(NumericConst(7)), Say("u")>>
      [] style = "branch" ->
            <<IfElse(BoolConst(TRUE), Compound(<<Return(NumericConst(7))>>),
                     Compound(<<Return(StringConst(<<"w">>))>>)),
              Say("u")>>
      [] style = "none" -> <<Say("c")>>
      [] style = "field" ->
            <<FieldAssignment(Self, "n", NumericConst(7)),
              Return(VariableValue(<<"self", "n">>)), Say("u")>>
      [] style = "error" -> <<Return(VariableValue(<<"z">>))>>

\* the ways method f calls the other method: by a method call, by the
\* methods the runtime calls by itself, and by a method that calls itself
Kinds == {"g", "__str__", "print", "__eq__", "__lt__", "__add__", "__init__", "r"}

CalleeName(kind) ==
    CASE kind = "print" -> STR_METHOD
      [] OTHER -> kind

CalleeParams(kind) ==
    CASE kind \in {"__eq__", "__lt__", "__add__"} -> <<"o">>
      [] kind = "r" -> <<"n">>
      [] OTHER -> <<>>

CallExpression(kind) ==
    CASE kind = "g" -> MethodCall(Self, "g", <<>>)
      [] kind = "__str__" -> Stringify(Self)
      [] kind = "print" -> PrintStatement(<<Self>>)
      [] kind = "__eq__" -> Comparison("Equal", Self, NumericConst(1))
      [] kind = "__lt__" -> Comparison("Less", Self, NumericConst(1))
      [] kind = "__add__" -> Add(Self, NumericConst(1))
      [] kind = "__init__" -> NewInstance(2, <<>>)
      [] kind = "r" -> MethodCall(Self, "r", <<NumericConst(MaxDepth)>>)

CalleeBody(kind, style) ==
    IF kind = "r"
    THEN <<IfElse(Comparison("Equal", VariableValue(<<"n">>), NumericConst(0)),
                  Compound(Callee(style)),
                  Return(Add(MethodCall(Self, "r",
                                        <<Sub(VariableValue(<<"n">>), NumericConst(1))>>),
                             NumericConst(1))))>>
    ELSE Callee(style)

\* the ways method f ends after the call: without Return, by returning a
\* constant, by returning what the call gave, by a Return among the
\* arguments of a print statement or of a method call
Tails == {"none", "value", "x", "operand", "argument"}

Tail_(tail) ==
    CASE tail = "none" -> <<>>
      [] tail = "value" -> <<Return(NumericConst(5))>>
      [] tail = "x" -> <<Return(VariableValue(<<"x">>))>>
      [] tail = "operand" ->
            <<PrintStatement(<<StringConst(<<"p">>), Return(NumericConst(6)),
                               StringConst(<<"q">>)>>),
              Say("u")>>
      [] tail = "argument" ->
            <<MethodCall(Self, "h", <<Return(NumericConst(6)), NumericConst(0)>>),
              Say("u")>>

\* class A with method f and the method it calls, class B with __init__
ClassesOf(kind, style, tail) ==
    LET f == Method("f", <<>>,
                    <<Assignment("x", CallExpression(kind)),
                      PrintStatement(<<VariableValue(<<"x">>)>>)>> \o Tail_(tail))
        callee == Method(CalleeName(kind), CalleeParams(kind), CalleeBody(kind, style))
    IN  [A |-> [name_ |-> "A", parent_ |-> "nullptr",
                methods_ |-> IF kind = "__init__" THEN <<f>> ELSE <<f, callee>>],
         B |-> [name_ |-> "B", parent_ |-> "nullptr",
                methods_ |-> IF kind = "__init__" THEN <<callee>> ELSE <<>>]]

MethodPrograms ==
    { [classes |-> ClassesOf(kind, style, tail),
       cls_ |-> <<"A", "B">>,
       order |-> order,
       body |-> <<ClassDefinition(Class("A")), ClassDefinition(Class("B")),
                  Assignment("a", NewInstance(1, <<>>)),
                  Assignment("y", MethodCall(VariableValue(<<"a">>), "f", <<>>)),
                  PrintStatement(<<VariableValue(<<"y">>)>>)>>] :
        kind \in Kinds, style \in Styles, tail \in Tails,
        order \in {"left to right", "right to left"} }

\* a Return outside every method
TopLevelPrograms ==
    { [classes |-> ClassesOf("g", "return", "none"),
       cls_ |-> <<"A", "B">>,
       order |-> "left to right",
       body |-> <<Say("c"), Return(NumericConst(1)), Say("u")>>] }

\* class A whose methods left, then and right each write their letter, assign
\* the field of their name and return their argument; class B with an
\* __init__ of two parameters
Letter(name) ==
    CASE name = "left" -> "L"
      [] name = "then" -> "M"
      [] name = "right" -> "R"
      [] name = "__lt__" -> "C"
      [] name = "__init__" -> "I"

Tell(name) ==
    Method(name, <<"v">>,
           <<Say(Letter(name)), FieldAssignment(Self, name, VariableValue(<<"v">>)),
             Return(VariableValue(<<"v">>))>>)

OperandClasses ==
    [A |-> [name_ |-> "A", parent_ |-> "nullptr",
            methods_ |-> <<Tell("left"), Tell("then"), Tell("right"), Tell("__lt__")>>],
     B |-> [name_ |-> "B", parent_ |-> "nullptr",
            methods_ |-> <<Method("__init__", <<"p", "q">>, <<Say(Letter("__init__"))>>)>>]]

\* an operand with side effects: a.left(v), a.right(v)
Operand(name, v) == MethodCall(VariableValue(<<"a">>), name, <<v>>)

\* the values an operand of a logical operation has
OperandValues ==
    <<None, NumericConst(0), NumericConst(1), StringConst(<<>>), StringConst(<<"w">>),
      BoolConst(FALSE), BoolConst(TRUE)>>

\* y = a.left(l) and a.right(r), y = a.left(l) or a.right(r)
LogicalProgram(op, l, r) ==
    [classes |-> OperandClasses,
     cls_ |-> <<"A", "B">>,
     order |-> "left to right",
     body |-> <<ClassDefinition(Class("A")), ClassDefinition(Class("B")),
                Assignment("a", NewInstance(1, <<>>)),
                Assignment("y", IF op = "And"
                                THEN And(Operand("left", OperandValues[l]),
                                         Operand("right", OperandValues[r]))
                                ELSE Or(Operand("left", OperandValues[l]),
                                        Operand("right", OperandValues[r]))),
                PrintStatement(<<VariableValue(<<"y">>)>>)>>]

\* the nodes with several operands
Shapes ==
    {"Add", "Sub", "Mult", "Div", "Comparison", "MethodCall", "NewInstance", "Print",
     "FieldAssignment"}

\* a statement whose node has operands with side effects: a.left(4) and
\* a.right(2); a.left(a) < a.right(2), which invokes a.__lt__;
\* a.left(a).then(a.right(2)); B(a.left(4), a.right(2)); and a.n = (a = B()),
\* whose right-hand side assigns the variable of its object
OperandStatement(shape) ==
    LET l == Operand("left", NumericConst(4))
        r == Operand("right", NumericConst(2))
        la == Operand("left", VariableValue(<<"a">>))
    IN  CASE shape = "Add" -> Assignment("y", Add(l, r))
          [] shape = "Sub" -> Assignment("y", Sub(l, r))
          [] shape = "Mult" -> Assignment("y", Mult(l, r))
          [] shape = "Div" -> Assignment("y", Div(l, r))
          [] shape = "Comparison" -> Assignment("y", Comparison("Less", la, r))
          [] shape = "MethodCall" -> Assignment("y", MethodCall(la, "then", <<r>>))
          [] shape = "NewInstance" -> Assignment("y", NewInstance(2, <<l, r>>))
          [] shape = "Print" -> PrintStatement(<<l, r>>)
          [] shape = "FieldAssignment" ->
                FieldAssignment(VariableValue(<<"a">>), "n",
                                Assignment("a", NewInstance(2, <<>>)))

OperandPrograms ==
    { [classes |-> OperandClasses,
       cls_ |-> <<"A", "B">>,
       order |-> order,
       body |-> <<ClassDefinition(Class("A")), ClassDefinition(Class("B")),
                  Assignment("a", NewInstance(1, <<>>)),
                  OperandStatement(shape),
                  Say("u")>>] :
        shape \in Shapes, order \in {"left to right", "right to left"} }

\* class A whose method make returns B(); class B without methods
FactoryClasses ==
    [A |-> [name_ |-> "A", parent_ |-> "nullptr",
            methods_ |-> <<Method("make", <<>>, <<Return(NewInstance(2, <<>>))>>)>>],
     B |-> [name_ |-> "B", parent_ |-> "nullptr", methods_ |-> <<>>]]

\* p = a.make(), p.n = v, q = a.make(), print q.n
FactoryPrograms ==
    { [classes |-> FactoryClasses,
       cls_ |-> <<"A", "B">>,
       order |-> "left to right",
       body |-> <<ClassDefinition(Class("A")), ClassDefinition(Class("B")),
                  Assignment("a", NewInstance(1, <<>>)),
                  Assignment("p", MethodCall(VariableValue(<<"a">>), "make", <<>>)),
                  FieldAssignment(VariableValue(<<"p">>), "n", NumericConst(v)),
                  Assignment("q", MethodCall(VariableValue(<<"a">>), "make", <<>>)),
                  PrintStatement(<<VariableValue(<<"q", "n">>)>>)>>] :
        v \in {1, 2} }

\* most formal parameters of a method of the inheritance programs
MaxParams == 1

\* a class has no method m (-1), or a method m of 0..MaxParams parameters
\* that writes the letter of its class and returns the number of its
\* parameters
Arities == -1..MaxParams

MethodsOf(c, arity) ==
    IF arity = -1 THEN <<>>
    ELSE <<Method("m", [i \in 1..arity |-> <<"p", "q", "r">>[i]],
                  <<Say(c), Return(NumericConst(arity))>>)>>

\* class A, class B(A), class C(B)
InheritanceClasses(a, b, c) ==
    [A |-> [name_ |-> "A", parent_ |-> "nullptr", methods_ |-> MethodsOf("a", a)],
     B |-> [name_ |-> "B", parent_ |-> "A", methods_ |-> MethodsOf("b", b)],
     C |-> [name_ |-> "C", parent_ |-> "B", methods_ |-> MethodsOf("c", c)]]

\* o = C(), y = o.m(1, ...) with n arguments, print y
InheritancePrograms ==
    { [classes |-> InheritanceClasses(a, b, c),
       cls_ |-> <<"A", "B", "C">>,
       order |-> "left to right",
       body |-> <<ClassDefinition(Class("A")), ClassDefinition(Class("B")),
                  ClassDefinition(Class("C")),
                  Assignment("o", NewInstance(3, <<>>)),
                  Assignment("y", MethodCall(VariableValue(<<"o">>), "m",
                                             [i \in 1..n |-> NumericConst(1)])),
                  PrintStatement(<<VariableValue(<<"y">>)>>)>>] :
        a \in Arities, b \in Arities, c \in Arities, n \in 0..MaxParams }

Programs ==
    MethodPrograms \cup TopLevelPrograms \cup OperandPrograms \cup FactoryPrograms
        \cup InheritancePrograms

\* the operands of a comparison: the empty handle, Bools, Numbers, Strings,
\* the class A and the instance a
CompareOperands ==
    <<None, BoolConst(FALSE), BoolConst(TRUE),
      NumericConst(-1), NumericConst(0), NumericConst(1),
      StringConst(<<>>), StringConst(<<"a">>), StringConst(<<"a", "b">>),
      StringConst(<<"b">>),
      VariableValue(<<"A">>), VariableValue(<<"a">>)>>

Comparators == {"Equal", "NotEqual", "Less", "Greater", "LessOrEqual", "GreaterOrEqual"}

\* a method that writes a letter and returns its first argument, or 1 when
\* it has no parameter; none when the arity is -1
UserMethod(name, c, arity) ==
    IF arity = -1 THEN <<>>
    ELSE <<Method(name, [i \in 1..arity |-> <<"o", "q", "r">>[i]],
                  <<Say(c), Return(IF arity = 0 THEN NumericConst(1)
                                   ELSE VariableValue(<<"o">>))>>)>>

\* class A with __eq__ and __lt__ of the arities given, class B
CompareClasses(eq, lt) ==
    [A |-> [name_ |-> "A", parent_ |-> "nullptr",
            methods_ |-> UserMethod(EQ_METHOD, "E", eq) \o UserMethod(LESS_METHOD, "C", lt)],
     B |-> [name_ |-> "B", parent_ |-> "nullptr", methods_ |-> <<>>]]

\* a = A(), y = l cmp r, print y
ComparisonProgram(cmp, l, r, eq, lt) ==
    [classes |-> CompareClasses(eq, lt),
     cls_ |-> <<"A", "B">>,
     order |-> "left to right",
     body |-> <<ClassDefinition(Class("A")), ClassDefinition(Class("B")),
                Assignment("a", NewInstance(1, <<>>)),
                Assignment("y", Comparison(cmp, CompareOperands[l], CompareOperands[r])),
                PrintStatement(<<VariableValue(<<"y">>)>>)>>]

\* most arguments of the print statement of the print programs
MaxArgs == 2

\* class A whose method f writes x and returns 7
PrintClasses ==
    [A |-> [name_ |-> "A", parent_ |-> "nullptr",
            methods_ |-> <<Method("f", <<>>, <<Say("x"), Return(NumericConst(7))>>)>>],
     B |-> [name_ |-> "B", parent_ |-> "nullptr", methods_ |-> <<>>]]

\* the arguments of a print statement: values of every kind that prints by
\* the value rule, and a call that writes
PrintArguments ==
    <<None, BoolConst(FALSE), BoolConst(TRUE), NumericConst(-1), NumericConst(7),
      StringConst(<<"w">>), VariableValue(<<"A">>),
      MethodCall(VariableValue(<<"a">>), "f", <<>>)>>

\* a = A(), print args, print 'u'
PrintProgram(args) ==
    [classes |-> PrintClasses,
     cls_ |-> <<"A", "B">>,
     order |-> "left to right",
     body |-> <<ClassDefinition(Class("A")), ClassDefinition(Class("B")),
                Assignment("a", NewInstance(1, <<>>)),
                PrintStatement([i \in DOMAIN args |-> PrintArguments[args[i]]]),
                Say("u")>>]

\* the ways class A defines __str__: not at all, with a parameter, writing
\* and returning a String, returning a Number, returning an instance of B,
\* returning nothing, failing
StrStyles == <<"absent", "arity", "text", "number", "nested", "none", "error">>

StrMethod(style) ==
    CASE style = "absent" -> <<>>
      [] style = "arity" -> <<Method(STR_METHOD, <<"o">>, <<Return(StringConst(<<"w">>))>>)>>
      [] style = "text" ->
            <<Method(STR_METHOD, <<>>, <<Say("s"), Return(StringConst(<<"w">>))>>)>>
      [] style = "number" -> <<Method(STR_METHOD, <<>>, <<Return(NumericConst(7))>>)>>
      [] style = "nested" -> <<Method(STR_METHOD, <<>>, <<Return(NewInstance(2, <<>>))>>)>>
      [] style = "none" -> <<Method(STR_METHOD, <<>>, <<Say("s")>>)>>
      [] style = "error" ->
            <<Method(STR_METHOD, <<>>, <<Say("s"), Return(VariableValue(<<"z">>))>>)>>

StrClasses(style) ==
    [A |-> [name_ |-> "A", parent_ |-> "nullptr", methods_ |-> StrMethod(style)],
     B |-> [name_ |-> "B", parent_ |-> "nullptr", methods_ |-> <<>>]]

\* the values converted: of every kind, the instance a last
StringifyOperands ==
    <<None, BoolConst(FALSE), BoolConst(TRUE), NumericConst(-1), NumericConst(7),
      StringConst(<<>>), StringConst(<<"w">>), VariableValue(<<"A">>),
      VariableValue(<<"a">>)>>

\* a = A(), then print v, or print str(v), or x = str(v) and print x
StringifyProgram(form, v, style) ==
    [classes |-> StrClasses(StrStyles[style]),
     cls_ |-> <<"A", "B">>,
     order |-> "left to right",
     body |-> <<ClassDefinition(Class("A")), ClassDefinition(Class("B")),
                Assignment("a", NewInstance(1, <<>>))>>
              \o CASE form = "print" -> <<PrintStatement(<<StringifyOperands[v]>>)>>
                    [] form = "str" ->
                          <<PrintStatement(<<Stringify(StringifyOperands[v])>>)>>
                    [] form = "assign" ->
                          <<Assignment("x", Stringify(StringifyOperands[v])),
                            PrintStatement(<<VariableValue(<<"x">>)>>)>>]

\* the ways a class of the instance printed defines __str__: not at all,
\* with a parameter, writing and returning a String, ending without Return,
\* returning None, returning an instance of class A
ShowStyles == <<"absent", "arity", "text", "none", "returnsNone", "nested">>

ShowMethod(style, c) ==
    CASE style = "absent" -> <<>>
      [] style = "arity" -> <<Method(STR_METHOD, <<"o">>, <<Return(StringConst(<<c>>))>>)>>
      [] style = "text" ->
            <<Method(STR_METHOD, <<>>, <<Say("s"), Return(StringConst(<<c>>))>>)>>
      [] style = "none" -> <<Method(STR_METHOD, <<>>, <<Say("s")>>)>>
      [] style = "returnsNone" -> <<Method(STR_METHOD, <<>>, <<Return(None)>>)>>
      [] style = "nested" -> <<Method(STR_METHOD, <<>>, <<Return(NewInstance(1, <<>>))>>)>>

\* class A, class B(A); a = A(), b = B(), print b
ShowProgram(a, b) ==
    [classes |-> [A |-> [name_ |-> "A", parent_ |-> "nullptr",
                         methods_ |-> ShowMethod(ShowStyles[a], "a")],
                  B |-> [name_ |-> "B", parent_ |-> "A",
                         methods_ |-> ShowMethod(ShowStyles[b], "b")]],
     cls_ |-> <<"A", "B">>,
     order |-> "left to right",
     body |-> <<ClassDefinition(Class("A")), ClassDefinition(Class("B")),
                Assignment("a", NewInstance(1, <<>>)),
                Assignment("b", NewInstance(2, <<>>)),
                PrintStatement(<<VariableValue(<<"b">>)>>)>>]

\* the formal parameters of the method inner, the plain name its body
\* assigns and the name its body reads
ScopeFormals == << <<>>, <<"p">>, <<"g">>, <<"self">> >>

ScopeAssigned == <<"g", "t", "w">>

ScopeRead == <<"self", "p", "g", "t", "w", "v">>

\* class A with inner(F): v = R, W = 3, return v, and outer(p): t = 5,
\* z = self.inner(7), return z; g = 1, u = A(), k = u.outer(2)
ScopeProgram(f, w, r) ==
    [classes |->
        [A |-> [name_ |-> "A", parent_ |-> "nullptr",
                methods_ |->
                  <<Method("inner", ScopeFormals[f],
                           <<Assignment("v", VariableValue(<<ScopeRead[r]>>)),
                             Assignment(ScopeAssigned[w], NumericConst(3)),
                             Return(VariableValue(<<"v">>))>>),
                    Method("outer", <<"p">>,
                           <<Assignment("t", NumericConst(5)),
                             Assignment("z", MethodCall(Self, "inner",
                                    [i \in 1..Len(ScopeFormals[f]) |-> NumericConst(7)])),
                             Return(VariableValue(<<"z">>))>>)>>]],
     cls_ |-> <<"A">>,
     order |-> "left to right",
     body |-> <<ClassDefinition(Class("A")),
                Assignment("g", NumericConst(1)),
                Assignment("u", NewInstance(1, <<>>)),
                Assignment("k", MethodCall(VariableValue(<<"u">>), "outer",
                                           <<NumericConst(2)>>))>>]

\* the statements that bind a name or fail to: a plain assignment, a field
\* assignment, a class definition, each completing or failing, and the
\* reads and calls that fail; i.set(4), where it is an argument or a right
\* side, binds the field f of i if it is evaluated
SetsField == MethodCall(VariableValue(<<"i">>), "set", <<NumericConst(4)>>)

BindingStatements ==
    << Assignment("x", NumericConst(2)),
       Assignment("z", VariableValue(<<"q">>)),
       FieldAssignment(VariableValue(<<"i">>), "e", VariableValue(<<"q">>)),
       FieldAssignment(VariableValue(<<"i">>), "e", NumericConst(3)),
       Assignment("z", MethodCall(VariableValue(<<"i">>), "bad", <<>>)),
       FieldAssignment(VariableValue(<<"q">>), "e", SetsField),
       FieldAssignment(VariableValue(<<"x">>), "e", SetsField),
       ClassDefinition(Class("B")),
       Assignment("z", SetsField),
       MethodCall(VariableValue(<<"x">>), "set", <<SetsField>>),
       Assignment("z", VariableValue(<<"x", "e">>)),
       Assignment("z", VariableValue(<<"i", "e">>)),
       MethodCall(SetsField, "set", <<SetsField>>),
       FieldAssignment(VariableValue(<<"i", "e">>), "g", SetsField) >>

\* class A with set(v): self.f = v, and bad(): self.h = 1, t = 1, w = q;
\* x = 1, i = A(), then two of the statements
BindingProgram(i, j) ==
    [classes |->
        [A |-> [name_ |-> "A", parent_ |-> "nullptr",
                methods_ |->
                  <<Method("set", <<"v">>,
                           <<FieldAssignment(Self, "f", VariableValue(<<"v">>))>>),
                    Method("bad", <<>>,
                           <<FieldAssignment(Self, "h", NumericConst(1)),
                             Assignment("t", NumericConst(1)),
                             Assignment("w", VariableValue(<<"q">>))>>)>>],
         B |-> [name_ |-> "B", parent_ |-> "nullptr", methods_ |-> <<>>]],
     cls_ |-> <<"A">>,
     order |-> "left to right",
     body |-> <<ClassDefinition(Class("A")),
                Assignment("x", NumericConst(1)),
                Assignment("i", NewInstance(1, <<>>)),
                BindingStatements[i],
                BindingStatements[j]>>]

\* the formal parameters of an __init__, for a class that defines one
InitFormals == << <<>>, <<"p">>, <<"self">> >>

\* the __init__ of a class, a = 0 for none: it assigns the field named and
\* returns 5
InitMethod(a, field) ==
    IF a = 0 THEN <<>>
    ELSE <<Method(INIT_METHOD, InitFormals[a],
                  <<FieldAssignment(Self, field, NumericConst(1)),
                    Return(NumericConst(5))>>)>>

\* class A, class B(A); x = B(7, 8, ..) with n arguments
InitProgram(a, b, n) ==
    [classes |-> [A |-> [name_ |-> "A", parent_ |-> "nullptr",
                         methods_ |-> InitMethod(a, "a")],
                  B |-> [name_ |-> "B", parent_ |-> "A",
                         methods_ |-> InitMethod(b, "b")]],
     cls_ |-> <<"A", "B">>,
     order |-> "left to right",
     body |-> <<ClassDefinition(Class("A")), ClassDefinition(Class("B")),
                Assignment("x", NewInstance(2, [i \in 1..n |-> NumericConst(6 + i)]))>>]

\* the operands of an arithmetic operation: Numbers, among them the least
\* int, computed as 0 - INT_MAX - 1, values of the other kinds and an
\* instance
ArithmeticOperands ==
    << NumericConst(0), NumericConst(7), NumericConst(2),
       Sub(NumericConst(0), NumericConst(1)),
       Sub(NumericConst(0), NumericConst(7)),
       NumericConst(INT_MAX),
       Sub(Sub(NumericConst(0), NumericConst(INT_MAX)), NumericConst(1)),
       StringConst(<<"s">>), BoolConst(TRUE), None, VariableValue(<<"o">>) >>

ArithmeticNode(op, lhs, rhs) ==
    CASE op = "Sub" -> Sub(lhs, rhs)
      [] op = "Mult" -> Mult(lhs, rhs)
      [] op = "Div" -> Div(lhs, rhs)

\* class A; o = A(), x = l op r
ArithmeticProgram(op, l, r) ==
    [classes |-> [A |-> [name_ |-> "A", parent_ |-> "nullptr", methods_ |-> <<>>]],
     cls_ |-> <<"A">>,
     order |-> "left to right",
     body |-> <<ClassDefinition(Class("A")),
                Assignment("o", NewInstance(1, <<>>)),
                Assignment("x", ArithmeticNode(op, ArithmeticOperands[l],
                                               ArithmeticOperands[r]))>>]

\* the ways a field of an instance is assigned: through the variables a and
\* b, through the field c.peer, through self in a method, through an
\* actual argument, and through the variable e
AliasWrites ==
    << FieldAssignment(VariableValue(<<"a">>), "x", NumericConst(5)),
       FieldAssignment(VariableValue(<<"b">>), "x", NumericConst(5)),
       FieldAssignment(VariableValue(<<"c", "peer">>), "x", NumericConst(5)),
       MethodCall(VariableValue(<<"a">>), "put", <<NumericConst(5)>>),
       MethodCall(VariableValue(<<"c">>), "poke", <<VariableValue(<<"a">>)>>),
       FieldAssignment(VariableValue(<<"e">>), "x", NumericConst(5)) >>

\* the ways the field is read: through a, b, c.peer, self, an actual
\* argument, and through the variables f and e
AliasReads ==
    << VariableValue(<<"a", "x">>),
       VariableValue(<<"b", "x">>),
       VariableValue(<<"c", "peer", "x">>),
       MethodCall(VariableValue(<<"a">>), "get", <<>>),
       MethodCall(VariableValue(<<"c">>), "peek", <<VariableValue(<<"a">>)>>),
       VariableValue(<<"f", "x">>),
       VariableValue(<<"e", "x">>) >>

\* class A with put(v): self.x = v, get(): return self.x,
\* poke(other): other.x = 5, peek(other): return other.x and
\* spawn(): return A(); a = A(), c = A(), b = a, c.peer = a, a.x = 0,
\* e = a.spawn(), f = a.spawn(), then a write and r = a read
AliasProgram(w, r) ==
    [classes |->
        [A |-> [name_ |-> "A", parent_ |-> "nullptr",
                methods_ |->
                  <<Method("put", <<"v">>,
                           <<FieldAssignment(Self, "x", VariableValue(<<"v">>))>>),
                    Method("get", <<>>, <<Return(VariableValue(<<"self", "x">>))>>),
                    Method("poke", <<"other">>,
                           <<FieldAssignment(VariableValue(<<"other">>), "x",
                                             NumericConst(5))>>),
                    Method("peek", <<"other">>,
                           <<Return(VariableValue(<<"other", "x">>))>>),
                    Method("spawn", <<>>, <<Return(NewInstance(3, <<>>))>>)>>]],
     cls_ |-> <<"A", "A", "A">>,
     order |-> "left to right",
     body |-> <<ClassDefinition(Class("A")),
                Assignment("a", NewInstance(1, <<>>)),
                Assignment("c", NewInstance(2, <<>>)),
                Assignment("b", VariableValue(<<"a">>)),
                FieldAssignment(VariableValue(<<"c">>), "peer", VariableValue(<<"a">>)),
                FieldAssignment(VariableValue(<<"a">>), "x", NumericConst(0)),
                Assignment("e", MethodCall(VariableValue(<<"a">>), "spawn", <<>>)),
                Assignment("f", MethodCall(VariableValue(<<"a">>), "spawn", <<>>)),
                AliasWrites[w],
                Assignment("r", AliasReads[r])>>]

\* the programs that are run; the methods of class A vary when the left
\* operand of the comparison is the instance
IsProgram(p) ==
    \/ p \in Programs
    \/ \E op \in {"And", "Or"}, l \in DOMAIN OperandValues, r \in DOMAIN OperandValues :
          p = LogicalProgram(op, l, r)
    \/ \E cmp \in Comparators, l \in DOMAIN CompareOperands, r \in DOMAIN CompareOperands,
          eq \in Arities, lt \in Arities :
          /\ l = Len(CompareOperands) \/ (eq = 1 /\ lt = 1)
          /\ p = ComparisonProgram(cmp, l, r, eq, lt)
    \/ \E n \in 0..MaxArgs : \E args \in [1..n -> DOMAIN PrintArguments] :
          p = PrintProgram(args)
    \/ \E form \in {"print", "str", "assign"}, v \in DOMAIN StringifyOperands,
          style \in DOMAIN StrStyles :
          /\ v = Len(StringifyOperands) \/ style = 1
          /\ p = StringifyProgram(form, v, style)
    \/ \E a \in 1..Len(ShowStyles) - 1, b \in DOMAIN ShowStyles : p = ShowProgram(a, b)
    \/ \E f \in DOMAIN ScopeFormals, w \in DOMAIN ScopeAssigned, r \in DOMAIN ScopeRead :
          p = ScopeProgram(f, w, r)
    \/ \E i \in DOMAIN BindingStatements, j \in DOMAIN BindingStatements :
          p = BindingProgram(i, j)
    \/ \E a \in 0..Len(InitFormals), b \in 0..Len(InitFormals), n \in 0..MaxArgs :
          p = InitProgram(a, b, n)
    \/ \E op \in {"Sub", "Mult", "Div"}, l \in DOMAIN ArithmeticOperands,
          r \in DOMAIN ArithmeticOperands :
          p = ArithmeticProgram(op, l, r)
    \/ \E w \in DOMAIN AliasWrites, r \in DOMAIN AliasReads : p = AliasProgram(w, r)

----------------------------------------------------------------------------
(* The run of a program as a state machine: RunMythonProgram executes the  *)
(* top-level statements in order.                                          *)

\* runtime::SimpleContext context{output}; runtime::Closure closure; and the
\* ClassInstance objects the NewInstance nodes hold
NewMachine(prog) ==
    [classes |-> prog.classes, cls_ |-> prog.cls_, order |-> prog.order,
     closures |-> << [x \in {} |-> ObjectHolder_None] >>,
     fields |-> [i \in 1..Len(prog.cls_) |-> [x \in {} |-> ObjectHolder_None]],
     out |-> <<>>, sig |-> "none", val |-> ObjectHolder_None,
     stack |-> <<1>>, from |-> 0, trace |-> <<>>]

EvalInit ==
    /\ IsProgram(program)
    /\ machine = NewMachine(program)
    /\ pc = 0
    /\ exit = "running"
    /\ lexer = NewLexer(<<>>)
    /\ phase = "none"
    /\ ret = NoRet
    /\ tokens = <<>>
    /\ ats = <<>>
    /\ eofCalls = 0
    /\ threw = FALSE
    /\ calls = 0

\* how main ends when the exception leaves RunMythonProgram
ExitOn(sig) ==
    CASE sig = "none" -> "running"
      [] sig = "runtime_error" -> "return 1"
      [] sig = "ObjectHolder" -> "terminate"
      [] sig = "abort" -> "abort"
      [] sig = "undefined" -> "undefined"

\* program->Execute(closure, context): the next top-level statement
ExecuteStatement ==
    /\ exit = "running"
    /\ pc < Len(program.body)
    /\ machine' = Execute(program.body[pc + 1], Local(1), machine)
    /\ pc' = pc + 1
    /\ exit' = ExitOn(machine'.sig)
    /\ UNCHANGED program
    /\ UNCHANGED lexVars

\* RunMythonProgram returns and main returns 0
ProgramReturns ==
    /\ exit = "running"
    /\ pc = Len(program.body)
    /\ exit' = "return 0"
    /\ UNCHANGED <<program, machine, pc>>
    /\ UNCHANGED lexVars

EvalNext == ExecuteStatement \/ ProgramReturns

EvalSpec == EvalInit /\ [][EvalNext]_vars

-----------------------------------------------------------------------------
(* The history of a run: the events of machine.trace, in order.            *)

Trace == machine.trace

\* the event that begins invocation k, and the invocation that made the call
CallOf(k) == CHOOSE i \in DOMAIN Trace : Trace[i].ev = "Call" /\ Trace[i].frame = k

CallerOf(k) == Trace[CallOf(k)].caller

\* the Returns that invocation k has executed
ThrowsOf(k) == { i \in DOMAIN Trace : Trace[i].ev = "throw" /\ Trace[i].frame = k }

\* the Returns executed inside a method invocation
MethodThrows == { i \in DOMAIN Trace : Trace[i].ev = "throw" /\ Trace[i].frame > 1 }

\* the invocations that have returned a value to their caller
Returns == { j \in DOMAIN Trace : Trace[j].ev = "return" }

\* the Return executed at i is caught by the MethodBody of the invocation it
\* executed in, and that invocation returns its value
ReceivedByOwnBody(i) ==
    /\ i + 2 <= Len(Trace)
    /\ Trace[i + 1] = [ev |-> "catch", frame |-> Trace[i].frame,
                       from |-> Trace[i].frame, value |-> Trace[i].value]
    /\ Trace[i + 2].ev = "return"
    /\ Trace[i + 2].frame = Trace[i].frame
    /\ Trace[i + 2].value = Trace[i].value

\* the invocation that returns at j returns the value of its own Return, or
\* the empty handle when it executed none
OwnResult(j) ==
    LET own == ThrowsOf(Trace[j].frame)
    IN  IF own = {} THEN Trace[j].value = ObjectHolder_None
        ELSE \A i \in own : i < j /\ Trace[j].value = Trace[i].value

\* after the return at j the caller goes on: the next event is the caller's
\* and is not the catch of a Return
CallerGoesOn(j) ==
    j < Len(Trace) =>
        LET e == Trace[j + 1]
            caller == CallerOf(Trace[j].frame)
        IN  IF e.ev = "Call" THEN e.caller = caller
            ELSE e.frame = caller /\ e.ev \in {"Execute", "throw", "completed", "error"}

\* what the expression that made the call yields when the call returns v
Yield(node, v) ==
    CASE node.type \in {"MethodCall", "Add"} -> v
      [] node.type = "Stringify" -> String(Object_Print(v, machine).val)
      [] node.type = "Comparison" -> Bool(IsTrue(v))
      [] node.type = "NewInstance" -> ClassInstance(node.class_instance_)
      [] node.type = "Print" -> ObjectHolder_None

\* the statement x = ... of method f, whose invocation is the second
\* closure of a run, and the statement after it
AssignsX(i) ==
    /\ Trace[i].ev = "Execute"
    /\ Trace[i].frame = 2
    /\ Trace[i].node.type = "Assignment"
    /\ Trace[i].node.var_ = "x"

PrintsX(i) ==
    /\ Trace[i].ev = "Execute"
    /\ Trace[i].frame = 2
    /\ Trace[i].node = PrintStatement(<<VariableValue(<<"x">>)>>)

\* the call that f's statement x = ... made returns at j: x is what the
\* expression yields for the value returned, and f goes on with its next
\* statement
YieldsToCaller(j) ==
    (Trace[j].frame = 3 /\ CallerOf(3) = 2 /\ "x" \in DOMAIN machine.closures[2]) =>
        /\ \E i \in 1..j : /\ AssignsX(i)
                           /\ machine.closures[2]["x"] = Yield(Trace[i].node.rv_, Trace[j].value)
        /\ \E n \in j + 1..Len(Trace) : PrintsX(n)

\* the recursive method returns one more than the invocation of itself that
\* it called
OneMore(j) ==
    LET k == Trace[j].frame
    IN  (Trace[CallOf(k)].method = "r" /\ CallerOf(k) > 2
            /\ Trace[j].value.kind = "Number") =>
            /\ j + 4 <= Len(Trace)
            /\ Trace[j + 2] = [ev |-> "throw", frame |-> CallerOf(k),
                               value |-> Number(Trace[j].value.value + 1),
                               effects |-> Trace[j].effects]
            /\ Trace[j + 4].ev = "return"
            /\ Trace[j + 4].frame = CallerOf(k)
            /\ Trace[j + 4].value = Number(Trace[j].value.value + 1)

\* C9: every Return executed in a method invocation is received by the
\* MethodBody of that same invocation, however the calls nest: the called
\* method returns the value of its own Return to the expression that made
\* the call, the caller goes on with its next statement, and every
\* invocation returns the value of its own Return, or the empty handle when
\* it executed none, never the value of a Return of a method it called.
C9_ReturnIsLocal ==
    /\ \A i \in MethodThrows : ReceivedByOwnBody(i)
    /\ \A j \in Returns : /\ OwnResult(j)
                          /\ CallerGoesOn(j)
                          /\ YieldsToCaller(j)
                          /\ OneMore(j)

\* three invocations nested by recursion have each executed a Return of a
\* value of its own and returned it, and the program has printed what the
\* outermost one returned
C9_Witness ==
    /\ exit = "return 0"
    /\ \E i2 \in ThrowsOf(2), i3 \in ThrowsOf(3), i4 \in ThrowsOf(4) :
          /\ CallerOf(4) = 3 /\ CallerOf(3) = 2
          /\ Trace[CallOf(3)].method = Trace[CallOf(4)].method
          /\ Trace[i4].value # Trace[i3].value
          /\ Trace[i3].value # Trace[i2].value
          /\ Trace[i4].value # Trace[i2].value
          /\ machine.closures[1]["y"] = Trace[i2].value
          /\ machine.closures[2]["x"] = Trace[i3].value

\* a statement list, argument list or branch in which something follows a
\* Return
ReturnNotLast(node) ==
    \/ /\ node.type \in {"Compound", "Print", "MethodCall"}
       /\ \E a \in 1..Len(node.args_) - 1 : node.args_[a].type = "Return"
    \/ /\ node.type = "IfElse"
       /\ node.else_body_ # nullptr

\* after the Return executed at i, its invocation evaluates no node, calls no
\* method, executes no other Return and does not run to the end of its body
NothingAfter(i) ==
    \A j \in i + 1..Len(Trace) :
        IF Trace[j].ev = "Call" THEN Trace[j].caller # Trace[i].frame
        ELSE Trace[j].frame = Trace[i].frame => Trace[j].ev \in {"catch", "return"}

\* the invocation of the Return executed at i ends with the effects made
\* before the Return, and with the value of the Return as its result
EndsWith(i) ==
    \E j \in i + 1..Len(Trace) :
        /\ Trace[j].ev = "return"
        /\ Trace[j].frame = Trace[i].frame
        /\ Trace[j].value = Trace[i].value
        /\ Trace[j].effects = Trace[i].effects

\* what was written before the Return executed at i is still the beginning
\* of the output
OutputPersists(i) ==
    LET out == Trace[i].effects.out
    IN  Len(out) <= Len(machine.out) /\ SubSeq(machine.out, 1, Len(out)) = out

\* C10: after a Return executes inside a method invocation, that invocation
\* evaluates no further statement or operand; what was written and assigned
\* before the Return persists; the result of the invocation is the value of
\* the expression of the Return.
C10_ReturnEndsInvocation ==
    \A i \in MethodThrows : NothingAfter(i) /\ EndsWith(i) /\ OutputPersists(i)

\* a called method has assigned a field and executed a Return that a
\* statement follows; its caller has then written to the output and executed
\* a Return among the arguments of a print statement that has further
\* arguments; and the program has gone on and written more
C10_Witness ==
    /\ exit = "return 0"
    /\ \E i2 \in ThrowsOf(2), i3 \in ThrowsOf(3) :
          /\ i3 < i2
          /\ \E n \in 1..i3 : /\ Trace[n].ev = "Execute" /\ Trace[n].frame = 3
                              /\ Trace[n].node.type = "Compound"
                              /\ ReturnNotLast(Trace[n].node)
          /\ \E n \in 1..i2 : /\ Trace[n].ev = "Execute" /\ Trace[n].frame = 2
                              /\ Trace[n].node.type = "Print"
                              /\ ReturnNotLast(Trace[n].node)
          /\ "n" \in DOMAIN Trace[i3].effects.fields[1]
          /\ Trace[i2].effects.out # Trace[i3].effects.out
          /\ Trace[i2].effects.out # machine.out

\* the invocations in progress while invocation k runs: k, its caller, and
\* so on outwards to the program
RECURSIVE Enclosing(_)
Enclosing(k) == IF k = 1 THEN {1} ELSE {k} \cup Enclosing(CallerOf(k))

\* the runtime errors thrown that no handler of the runtime caught
Errors == { i \in DOMAIN Trace : Trace[i].ev = "error" }

\* the bodies that ran to their end without a Return
Completions == { i \in DOMAIN Trace : Trace[i].ev = "completed" }

\* the runtime error thrown at i leaves every invocation in progress: none
\* of them catches it, returns a value or goes on, and the program fails
Propagates(i) ==
    /\ i = Len(Trace)
    /\ machine.sig = "runtime_error"
    /\ machine.from = Trace[i].frame
    /\ exit = "return 1"
    /\ \A j \in DOMAIN Trace :
          Trace[j].frame \in Enclosing(Trace[i].frame) =>
              Trace[j].ev \notin {"catch", "return", "completed"}

\* the body that ran to its end at i returns the empty handle
YieldsNone(i) ==
    /\ ThrowsOf(Trace[i].frame) = {}
    /\ i < Len(Trace)
    /\ Trace[i + 1].ev = "return"
    /\ Trace[i + 1].frame = Trace[i].frame
    /\ Trace[i + 1].value = ObjectHolder_None

\* C11: MethodBody catches only the handle thrown by a Return: a runtime
\* error thrown during a method body leaves that body and every body that
\* encloses it dynamically, up to the program, which fails; it never becomes
\* the value a method returns.  A body that runs to its end without a Return
\* and without an error returns the empty handle.
C11_OnlyReturnIsCaught ==
    /\ \A i \in Errors : Propagates(i)
    /\ \A i \in Completions : YieldsNone(i)

\* a method body has run to its end and returned the empty handle to a
\* method called by method f, where a runtime error was then thrown that has
\* ended the program
C11_Witness ==
    /\ exit = "return 1"
    /\ \E i \in Errors, j \in Completions :
          /\ j < i
          /\ Trace[j].frame = 4
          /\ Trace[i].frame = 3
          /\ Enclosing(4) = {1, 2, 3, 4}


-----------------------------------------------------------------------------
(* The logical operations.                                                 *)

\* the evaluations of the operand a.m(v) after event i
Evaluations(i, operand) ==
    { j \in i + 1..Len(Trace) : /\ Trace[j].ev = "Execute"
                                /\ Trace[j].node.type = "MethodCall"
                                /\ Trace[j].node.method_ = operand.method_ }

\* the invocations of a method
Invocations(method) ==
    { k \in DOMAIN Trace : Trace[k].ev = "Call" /\ Trace[k].method = method }

\* what the invocation of a method returned
ResultOf(method) ==
    Trace[CHOOSE j \in Returns : Trace[CallOf(Trace[j].frame)].method = method].value

\* v is the value w
Is(v, w) == v.kind = w.kind /\ v = w

Written(c) == \E n \in DOMAIN machine.out : machine.out[n] = c

\* the output ends in the text
EndsIn(text) ==
    /\ Len(machine.out) >= Len(text)
    /\ SubSeq(machine.out, Len(machine.out) - Len(text) + 1, Len(machine.out)) = text

\* a value that is cast to True: a number other than zero, a string that is
\* not empty, the Bool True
Truthy(v) ==
    \/ v.kind = "Number" /\ v.value # 0
    \/ v.kind = "String" /\ v.value # <<>>
    \/ v.kind = "Bool" /\ v.value

\* the operand a.m(v) has been evaluated once, with its effects: m was
\* invoked once, wrote its letter and assigned its field
EvaluatedOnce(i, operand) ==
    /\ Cardinality(Evaluations(i, operand)) = 1
    /\ Cardinality(Invocations(operand.method_)) = 1
    /\ Written(Letter(operand.method_))
    /\ operand.method_ \in DOMAIN machine.fields[1]

\* the operand a.m(v) has not been evaluated and none of its effects
\* occurred
NotEvaluated(i, operand) ==
    /\ Evaluations(i, operand) = {}
    /\ Invocations(operand.method_) = {}
    /\ ~Written(Letter(operand.method_))
    /\ operand.method_ \notin DOMAIN machine.fields[1]

\* the logical operation evaluated at i: its right operand is needed when
\* the left one is truthy (And), falsy (Or)
ShortCircuit(i) ==
    LET node == Trace[i].node
        l == ResultOf(node.lhs_.method_)
        needed == IF node.type = "And" THEN Truthy(l) ELSE ~Truthy(l)
        last == IF needed THEN ResultOf(node.rhs_.method_) ELSE l
    IN  /\ EvaluatedOnce(i, node.lhs_)
        /\ IF needed
           THEN /\ EvaluatedOnce(i, node.rhs_)
                /\ \A j \in Evaluations(i, node.lhs_), k \in Evaluations(i, node.rhs_) : j < k
           ELSE NotEvaluated(i, node.rhs_)
        /\ machine.sig = "none"
        /\ machine.closures[1]["y"] = Bool(Truthy(last))
        /\ exit = "return 0" =>
              EndsIn(IF Truthy(last) THEN <<"T", "r", "u", "e", "\n">>
                                     ELSE <<"F", "a", "l", "s", "e", "\n">>)

Logicals == { i \in DOMAIN Trace : Trace[i].ev = "Execute" /\ Trace[i].node.type \in {"And", "Or"} }

\* C12: And evaluates its left operand once and its right operand once
\* exactly when the left one is truthy, Or evaluates its right operand
\* exactly when the left one is falsy; an operand that is not evaluated has
\* no effect; the result is the Bool of the truthiness of the last operand
\* evaluated, and prints as True or False.
C12_ShortCircuit == \A i \in Logicals : ShortCircuit(i)

\* 0 or "w" has evaluated both operands and printed True
C12_Witness ==
    /\ exit = "return 0"
    /\ \E i \in Logicals :
          /\ Trace[i].node.type = "Or"
          /\ Is(ResultOf("left"), Number(0))
          /\ Is(ResultOf("right"), String(<<"w">>))
          /\ machine.closures[1]["y"] = Bool(TRUE)


-----------------------------------------------------------------------------
(* The order of the operands.                                              *)

\* every invocation of method m1 has returned before any effect of method
\* m2: m2 is invoked later, and when m1 returns m2 has neither written its
\* letter nor assigned its field
Precedes(m1, m2) ==
    \A i \in Invocations(m1), j \in Invocations(m2) :
        \E k \in Returns :
            /\ Trace[k].frame = Trace[i].frame
            /\ k < j
            /\ \A n \in DOMAIN Trace[k].effects.out : Trace[k].effects.out[n] # Letter(m2)
            /\ m2 \notin DOMAIN Trace[k].effects.fields[1]

\* a.n = (a = B()) assigns the field of the instance that a named before
\* the right-hand side was evaluated
ObjectBeforeValue ==
    \A i \in DOMAIN Trace :
        (Trace[i].ev = "Execute" /\ Trace[i].frame = 1
            /\ Trace[i].node.type = "FieldAssignment"
            /\ Trace[i].node.rv_.type = "Assignment"
            /\ Trace[i].node.rv_.var_ = Trace[i].node.object_.var_name_) =>
            /\ "n" \in DOMAIN machine.fields[1]
            /\ "n" \notin DOMAIN machine.fields[2]

\* C13: the effects of an earlier operand happen before any effect of a
\* later operand, for every node with several operands; Comparison
\* evaluates its left operand completely before its right operand, and both
\* before it invokes the comparator.
C13_LeftToRight ==
    /\ Precedes("left", "right")
    /\ Precedes("left", "then") /\ Precedes("right", "then")
    /\ Precedes("left", "__lt__") /\ Precedes("right", "__lt__")
    /\ Precedes("left", "__init__") /\ Precedes("right", "__init__")
    /\ ObjectBeforeValue

\* the nodes whose operands the program has evaluated, Comparison apart
NoComparison ==
    \A i \in DOMAIN Trace : Trace[i].ev = "Execute" => Trace[i].node.type # "Comparison"

\* the order holds for every node but Comparison, and for Comparison when
\* the build evaluates the arguments of a call from left to right
C13_LeftToRightButComparison ==
    (NoComparison \/ program.order = "left to right") => C13_LeftToRight

\* a Comparison evaluated with its right operand first
C13_RightOperandFirst ==
    /\ exit = "return 0"
    /\ program.order = "right to left"
    /\ \E i \in Invocations("right"), j \in Invocations("left"), k \in Invocations("__lt__") :
          i < j /\ j < k


-----------------------------------------------------------------------------
(* The instances that NewInstance yields.                                  *)

\* the invocations of a method that have returned
ReturnsOf(method) ==
    { j \in Returns : Trace[CallOf(Trace[j].frame)].method = method }

\* C14: every evaluation of a NewInstance node yields a fresh instance,
\* also when one node is reached by two invocations of one method: the
\* instance that an invocation of make returns has no field set through
\* the result of an earlier invocation.
C14_FreshInstance ==
    \A j \in ReturnsOf("make") :
        Trace[j].value.kind = "ClassInstance" =>
            DOMAIN Trace[j].effects.fields[Trace[j].value.id] = {}

\* the second invocation of make has returned the instance that the first
\* one returned, and the program has printed the field assigned through the
\* first result
C14_SharedInstance ==
    /\ exit = "return 0"
    /\ Cardinality(ReturnsOf("make")) = 2
    /\ machine.closures[1]["p"] = machine.closures[1]["q"]
    /\ \E v \in {1, 2} : machine.out = IntText(v) \o <<"\n">>


-----------------------------------------------------------------------------
(* The lookup of a method.                                                 *)

\* a class and its ancestors, nearest first
RECURSIVE Ancestry(_)
Ancestry(cls) ==
    IF program.classes[cls].parent_ = "nullptr" THEN <<cls>>
    ELSE <<cls>> \o Ancestry(program.classes[cls].parent_)

\* the methods of a class that have the name
Named(cls, name) ==
    LET methods_ == program.classes[cls].methods_
    IN  { methods_[i] : i \in { i \in DOMAIN methods_ : methods_[i].name = name } }

\* the classes of the ancestry that define a method of the name, by their
\* place in it
Definers(cls, name) ==
    { k \in DOMAIN Ancestry(cls) : Named(Ancestry(cls)[k], name) # {} }

\* the nearest class that defines a method of the name has exactly n
\* formal parameters for it
NearestTakes(cls, name, n) ==
    \E k \in Definers(cls, name) :
        /\ \A j \in Definers(cls, name) : k <= j
        /\ \A mtd \in Named(Ancestry(cls)[k], name) : Len(mtd.formal_params) = n

\* the letter of the nearest class that defines a method of the name
NearestLetter(cls, name) ==
    LET k == CHOOSE k \in Definers(cls, name) : \A j \in Definers(cls, name) : k <= j
    IN  CASE Ancestry(cls)[k] = "A" -> "a"
          [] Ancestry(cls)[k] = "B" -> "b"
          [] Ancestry(cls)[k] = "C" -> "c"

\* the call o.m(...) evaluated at i succeeded: one invocation, of the
\* method of the nearest class, and no other body was executed
Succeeds(i) ==
    LET cls == program.cls_[machine.closures[1]["o"].id]
        node == Trace[i].node
    IN  /\ machine.sig = "none"
        /\ Cardinality(Invocations(node.method_)) = 1
        /\ machine.out[1] = NearestLetter(cls, node.method_)
        /\ \A c \in {"a", "b", "c"} : Written(c) => c = NearestLetter(cls, node.method_)
        /\ machine.closures[1]["y"] = Number(Len(node.args_))

\* the call o.m(...) evaluated at i failed with a runtime error and no body
\* was executed
FailsUnexecuted(i) ==
    /\ machine.sig = "runtime_error"
    /\ exit = "return 1"
    /\ Trace[Len(Trace)] = [ev |-> "error", frame |-> 1]
    /\ \A j \in DOMAIN Trace : Trace[j].ev # "Call" /\ Trace[j].frame = 1
    /\ machine.out = <<>>

\* the calls of a method on a variable that the program has evaluated
MethodCalls ==
    { i \in DOMAIN Trace : /\ Trace[i].ev = "Execute"
                           /\ Trace[i].frame = 1
                           /\ Trace[i].node.type = "MethodCall"
                           /\ Trace[i].node.object_.type = "VariableValue"
                           /\ Trace[i].node.object_.var_name_ = "o" }

\* C15: a method is looked up by name alone, in the nearest class of the
\* inheritance chain that defines the name: HasMethod(m, n) is true, and
\* Call succeeds, exactly when that nearest method has n formal parameters;
\* a method of a subclass shadows those of its ancestors whatever its
\* arity; Call fails with a runtime error, no body executed, when the name
\* is absent or the arity differs.
C15_NearestByName ==
    /\ \A i \in MethodCalls :
          IF NearestTakes(program.cls_[machine.closures[1]["o"].id],
                          Trace[i].node.method_, Len(Trace[i].node.args_))
          THEN Succeeds(i) ELSE FailsUnexecuted(i)
    /\ ("o" \in DOMAIN machine.closures[1] /\ machine.closures[1]["o"].kind = "ClassInstance") =>
          \A n \in 0..MaxParams + 1 :
              HasMethod(machine, machine.closures[1]["o"].id, "m", n)
                  <=> NearestTakes(program.cls_[machine.closures[1]["o"].id], "m", n)

\* class B shadows the method of class A that takes the argument of the
\* call on an instance of class C, and the call has failed
C15_Witness ==
    /\ MethodCalls # {}
    /\ Named("C", "m") = {}
    /\ exit = "return 1"
    /\ \E mtd \in Named("B", "m") : Len(mtd.formal_params) = 0
    /\ \E mtd \in Named("A", "m") : Len(mtd.formal_params) = 1
    /\ \A i \in MethodCalls : Len(Trace[i].node.args_) = 1


-----------------------------------------------------------------------------
(* The comparisons.                                                        *)

\* the program compares two operands that are constants or names
Compares ==
    /\ Len(program.body) >= 4
    /\ program.body[4].type = "Assignment"
    /\ program.body[4].rv_.type = "Comparison"
    /\ program.body[4].rv_.lhs_.type \in {"ValueStatement", "None", "VariableValue"}
    /\ program.body[4].rv_.rhs_.type \in {"ValueStatement", "None", "VariableValue"}

\* and has evaluated the comparison
Compared == Compares /\ pc >= 4

\* the value of an operand
Denotes(node) ==
    CASE node.type = "ValueStatement" -> node.value_
      [] node.type = "None" -> ObjectHolder_None
      [] node.type = "VariableValue" /\ node.var_name_ = "A" -> Class("A")
      [] node.type = "VariableValue" /\ node.var_name_ = "a" -> ClassInstance(1)

Lhs == Denotes(program.body[4].rv_.lhs_)

Rhs == Denotes(program.body[4].rv_.rhs_)

\* both are Bools, both Numbers or both Strings
SamePrimitive(l, r) == l.kind \in {"Bool", "Number", "String"} /\ l.kind = r.kind

\* s comes before t in the lexicographic order of the character codes
Lexicographic(s, t) ==
    \E k \in 0..Len(s) :
        /\ k <= Len(t)
        /\ SubSeq(s, 1, k) = SubSeq(t, 1, k)
        /\ IF k = Len(s) THEN k < Len(t)
           ELSE k < Len(t) /\ CharCode(s[k + 1]) < CharCode(t[k + 1])

\* the natural comparison of two values of one primitive kind
Natural(cmp, l, r) ==
    IF cmp = "Equal" THEN l.value = r.value
    ELSE CASE l.kind = "Bool" -> l.value = FALSE /\ r.value = TRUE
           [] l.kind = "Number" -> l.value < r.value
           [] l.kind = "String" -> Lexicographic(l.value, r.value)

\* what a comparison does: it fails or gives a value, after the calls of
\* user methods it made
Gives(v, methods) == [fails |-> FALSE, value |-> v, calls |-> methods]

Fails(methods) == [fails |-> TRUE, value |-> FALSE, calls |-> methods]

\* class A has a method of the name with one formal parameter
TakesOne(name) == \E mtd \in Named("A", name) : Len(mtd.formal_params) = 1

\* Equal and Less, as decided in order: the natural comparison of two values
\* of one primitive kind; the truthiness of the user method of an instance
\* on the left, which returns its argument; Equal of two empty handles;
\* failure otherwise
Base(cmp, l, r) ==
    LET method == IF cmp = "Equal" THEN "__eq__" ELSE "__lt__"
    IN  CASE SamePrimitive(l, r) -> Gives(Natural(cmp, l, r), <<>>)
          [] l.kind = "ClassInstance" ->
                IF TakesOne(method) THEN Gives(Truthy(r), <<method>>) ELSE Fails(<<>>)
          [] cmp = "Equal" /\ l.kind = "None" /\ r.kind = "None" -> Gives(TRUE, <<>>)
          [] OTHER -> Fails(<<>>)

\* the methods invoked in the run, in order
CallsMade ==
    LET made == SelectSeq(Trace, LAMBDA e : e.ev = "Call")
    IN  [i \in DOMAIN made |-> made[i].method]

\* what the comparison of the program did
Observed ==
    IF machine.sig = "runtime_error" THEN Fails(CallsMade)
    ELSE Gives(machine.closures[1]["y"].value, CallsMade)

\* C16: Equal and Less decide in this order: two values of one primitive
\* kind are compared naturally and no user method is called; else an
\* instance on the left gives the truthiness of its __eq__ (__lt__) called
\* with the right operand, and a runtime error when it has no such method of
\* one parameter; else Equal gives true for two empty handles; every other
\* combination fails with a runtime error.
C16_DecisionOrder ==
    (Compared /\ program.body[4].rv_.cmp_ \in {"Equal", "Less"}) =>
        /\ machine.sig \in {"none", "runtime_error"}
        /\ Observed = Base(program.body[4].rv_.cmp_, Lhs, Rhs)
        /\ machine.sig = "runtime_error" => exit = "return 1"

\* an instance whose __eq__ returned its falsy argument, the empty handle,
\* has been found not equal to it, and the program has printed False
C16_Witness ==
    /\ Compared
    /\ exit = "return 0"
    /\ program.body[4].rv_.cmp_ = "Equal"
    /\ Lhs.kind = "ClassInstance"
    /\ Rhs.kind = "None"
    /\ CallsMade = <<"__eq__">>
    /\ machine.out = <<"E", "\n", "F", "a", "l", "s", "e", "\n">>


\* the program has evaluated one of the comparisons defined from Equal and
\* Less
ComparedDerived ==
    /\ Compared
    /\ program.body[4].rv_.cmp_ \in {"NotEqual", "Greater", "LessOrEqual", "GreaterOrEqual"}

\* whether a comparison failed, and the value it gave
Outcome(result) == <<result.fails, result.value>>

Negation(result) == IF result.fails THEN result ELSE Gives(~result.value, result.calls)

\* the derived comparisons, each composed of Equal and Less both evaluated
Composed(cmp, l, r) ==
    LET E == Base("Equal", l, r)
        L == Base("Less", l, r)
        G == IF L.fails \/ E.fails THEN Fails(<<>>)
             ELSE Gives(~L.value /\ ~E.value, <<>>)
    IN  CASE cmp = "NotEqual" -> Negation(E)
          [] cmp = "Greater" -> G
          [] cmp = "LessOrEqual" -> Negation(G)
          [] cmp = "GreaterOrEqual" -> Negation(L)

\* C17 as stated: NotEqual is not Equal, Greater is (not Less) and (not
\* Equal), LessOrEqual is not Greater, GreaterOrEqual is not Less; a derived
\* comparison gives a value exactly when both base comparisons of its
\* definition give one, and fails when either fails.
C17_Composed ==
    ComparedDerived =>
        Outcome(Observed) = Outcome(Composed(program.body[4].rv_.cmp_, Lhs, Rhs))

\* the derived comparisons as evaluated: Greater evaluates Less first, and
\* Equal only when Less gave false
InOrder(cmp, l, r) ==
    LET E == Base("Equal", l, r)
        L == Base("Less", l, r)
        G == CASE L.fails -> L
               [] L.value -> Gives(FALSE, L.calls)
               [] E.fails -> Fails(L.calls)
               [] OTHER -> Gives(~E.value, L.calls \o E.calls)
    IN  CASE cmp = "NotEqual" -> Negation(E)
          [] cmp = "Greater" -> G
          [] cmp = "LessOrEqual" -> Negation(G)
          [] cmp = "GreaterOrEqual" -> Negation(L)

\* C17, amended: NotEqual is not Equal, GreaterOrEqual is not Less,
\* LessOrEqual is not Greater, and Greater is not (Less or Equal) with Equal
\* evaluated only when Less gave false: Greater fails when Less fails, is
\* false when Less is true, whether or not Equal would fail, and otherwise
\* fails when Equal fails and is not Equal.
C17_InOrder ==
    ComparedDerived =>
        /\ machine.sig \in {"none", "runtime_error"}
        /\ Observed = InOrder(program.body[4].rv_.cmp_, Lhs, Rhs)

\* Greater on an instance with __lt__ and without __eq__ has given false,
\* __lt__ having returned its truthy argument
C17_Witness ==
    /\ ComparedDerived
    /\ exit = "return 0"
    /\ program.body[4].rv_.cmp_ = "Greater"
    /\ Lhs.kind = "ClassInstance"
    /\ Named("A", "__eq__") = {}
    /\ CallsMade = <<"__lt__">>
    /\ machine.closures[1]["y"] = Bool(FALSE)


\* exactly one of three holds
ExactlyOne(a, b, c) == Cardinality({ i \in 1..3 : <<a, b, c>>[i] }) = 1

\* C18: for two values a, b of one primitive kind exactly one of
\* Less(a, b), Equal(a, b), Less(b, a) holds, with false < true for Bools
\* and the lexicographic order for Strings; and exactly one of Less, Equal,
\* Greater holds for (a, b).
C18_Trichotomy ==
    (Compares /\ SamePrimitive(Lhs, Rhs)) =>
        LET lt == Less(Lhs, Rhs, machine)
            eq == Equal(Lhs, Rhs, machine)
            gt == Less(Rhs, Lhs, machine)
            G == Greater(Lhs, Rhs, machine)
            cmp == program.body[4].rv_.cmp_
        IN  /\ lt.sig = "none" /\ eq.sig = "none" /\ gt.sig = "none" /\ G.sig = "none"
            /\ ExactlyOne(lt.val, eq.val, gt.val)
            /\ ExactlyOne(lt.val, eq.val, G.val)
            /\ lt.val = Natural("Less", Lhs, Rhs)
            /\ eq.val = Natural("Equal", Lhs, Rhs)
            /\ pc >= 4 =>
                  /\ machine.sig = "none"
                  /\ cmp = "Less" => machine.closures[1]["y"] = Bool(lt.val)
                  /\ cmp = "Equal" => machine.closures[1]["y"] = Bool(eq.val)
                  /\ cmp = "Greater" => machine.closures[1]["y"] = Bool(G.val)

\* the program has found a String less than a String that it begins
C18_Witness ==
    /\ Compared
    /\ exit = "return 0"
    /\ program.body[4].rv_.cmp_ = "Less"
    /\ Is(Lhs, String(<<"a">>))
    /\ Is(Rhs, String(<<"a", "b">>))
    /\ machine.closures[1]["y"] = Bool(TRUE)


-----------------------------------------------------------------------------
(* The print statement.                                                    *)

\* the program prints a list of arguments, and has done so
Prints ==
    /\ Len(program.body) >= 4
    /\ program.body[4].type = "Print"
    /\ program.classes = PrintClasses

Printed == Prints /\ pc >= 4

\* the value of an argument: the method f returns 7
ArgumentValue(node) == IF node.type = "MethodCall" THEN Number(7) ELSE Denotes(node)

\* the value print rule
Str(v) ==
    CASE v.kind = "None" -> <<"N", "o", "n", "e">>
      [] v.kind = "Bool" -> IF v.value THEN <<"T", "r", "u", "e">>
                            ELSE <<"F", "a", "l", "s", "e">>
      [] v.kind = "Number" -> IntText(v.value)
      [] v.kind = "String" -> v.value
      [] v.kind = "Class" -> <<"C", "l", "a", "s", "s", " ">> \o <<v.name>>

\* str(a1) + " " + ... + " " + str(an)
RECURSIVE Line_(_, _)
Line_(args, i) ==
    IF i > Len(args) THEN <<>>
    ELSE (IF i > 1 THEN <<" ">> ELSE <<>>) \o Str(ArgumentValue(args[i]))
             \o Line_(args, i + 1)

\* the text of the print statement of the program
PrintedLine == Line_(program.body[4].args_, 1) \o <<"\n">>

\* what the statement before the next one left in the output
OutputOfPrint ==
    IF pc >= 5 THEN SubSeq(machine.out, 1, Len(machine.out) - 2) ELSE machine.out

\* no argument but the first is a call
NoLaterCall ==
    \A i \in 2..Len(program.body[4].args_) : program.body[4].args_[i].type # "MethodCall"

\* C19: Print(a1, ..., an) appends exactly str(a1) + " " + ... + " " +
\* str(an) + newline to the output, with nothing interleaved whatever the
\* argument expressions are, one newline when it has no argument, and
\* returns the empty handle.
C19_PrintFormat ==
    Printed =>
        /\ machine.sig = "none"
        /\ pc = 4 => machine.val = ObjectHolder_None
        /\ Len(OutputOfPrint) >= Len(PrintedLine)
        /\ SubSeq(OutputOfPrint, Len(OutputOfPrint) - Len(PrintedLine) + 1,
                  Len(OutputOfPrint)) = PrintedLine
        /\ Invocations("f") = {} => OutputOfPrint = PrintedLine

\* the text is written whole when no argument after the first is a call
C19_PrintFormatNoLaterCall == (Prints /\ NoLaterCall) => C19_PrintFormat

\* print 7, a.f() has written what f writes between 7 and the value of f
C19_Interleaved ==
    /\ Printed
    /\ exit = "return 0"
    /\ machine.out = <<"7", " ", "x", "\n", "7", "\n", "u", "\n">>


-----------------------------------------------------------------------------
(* The conversion to a string.                                             *)

\* the machine after the first n statements of a program, or after the one
\* that failed
RECURSIVE Ran(_, _, _, _)
Ran(prog, i, n, st) ==
    IF i > n \/ st.sig # "none" THEN st
    ELSE Ran(prog, i + 1, n, Execute(prog.body[i], Local(1), st))

\* the program converts a value to a string
Stringifies ==
    /\ Len(program.body) >= 4
    /\ \/ /\ program.body[4].type = "Print"
          /\ Len(program.body[4].args_) = 1
          /\ program.body[4].args_[1].type = "Stringify"
       \/ /\ program.body[4].type = "Assignment"
          /\ program.body[4].rv_.type = "Stringify"

\* the expression converted
Converted ==
    IF program.body[4].type = "Print" THEN program.body[4].args_[1].argument_
    ELSE program.body[4].rv_.argument_

\* the run of the program that prints the value instead
PrintsInstead ==
    LET twin == [program EXCEPT !.body = SubSeq(@, 1, 3) \o <<PrintStatement(<<Converted>>)>>]
    IN  Ran(twin, 1, 4, NewMachine(twin))

\* what the __str__ of class A writes
StrWrites ==
    IF /\ Converted.type = "VariableValue"
       /\ Converted.var_name_ = "a"
       /\ \E mtd \in Named("A", STR_METHOD) :
             /\ mtd.formal_params = <<>>
             /\ mtd.body.body_.args_[1].type = "Print"
    THEN <<"s", "\n">> ELSE <<>>

-----------------------------------------------------------------------------
(* The printing of an instance.                                            *)

\* the program prints the instance b, and has done so or failed to
Shows ==
    /\ Len(program.body) = 5
    /\ program.body[5].type = "Print"
    /\ Len(program.body[5].args_) = 1
    /\ program.body[5].args_[1].type = "VariableValue"
    /\ program.body[5].args_[1].var_name_ = "b"

Shown == Shows /\ (pc = 5 \/ (pc = 4 /\ exit # "running"))

\* the invocations of __str__ on instance id
StrCalls(id) ==
    { i \in Invocations(STR_METHOD) : Trace[i].self = id }

\* the return of the invocation that began at i, if it has returned
ReturnOfCall(i) == { j \in Returns : Trace[j].frame = Trace[i].frame }

\* instance id is printed as the text by the rules: an instance whose
\* nearest __str__ takes no argument calls it once and prints what it
\* returns, the literal None for the empty handle, an instance by the same
\* rules; another instance prints its identity and calls nothing
RECURSIVE PrintedByRules(_, _)
PrintedByRules(id, text) ==
    IF ~NearestTakes(program.cls_[id], STR_METHOD, 0)
    THEN /\ StrCalls(id) = {}
         /\ text = Address(id)
    ELSE /\ Cardinality(StrCalls(id)) = 1
         /\ \A i \in StrCalls(id) :
               /\ ReturnOfCall(i) # {}
               /\ \A j \in ReturnOfCall(i) :
                     CASE Trace[j].value.kind = "None" -> text = <<"N", "o", "n", "e">>
                       [] Trace[j].value.kind = "String" -> text = Trace[j].value.value
                       [] Trace[j].value.kind = "ClassInstance" ->
                             PrintedByRules(Trace[j].value.id, text)

\* what the methods called had written when the last of them returned
WrittenByMethods ==
    IF Returns = {} THEN <<>>
    ELSE Trace[CHOOSE j \in Returns : \A i \in Returns : i <= j].effects.out

\* C21: printing an instance whose class or an ancestor defines a __str__
\* without arguments calls it exactly once and prints the handle returned
\* by the print rules: another instance recursively, the empty handle as
\* None; an instance without such a method prints its identity and calls
\* no method.
C21_PrintsWhatStrReturns ==
    Shown =>
        /\ machine.sig = "none"
        /\ Invocations(STR_METHOD) \subseteq StrCalls(1) \cup StrCalls(2)
        /\ \E text \in {Address(1), Address(2), <<"a">>, <<"b">>, <<"N", "o", "n", "e">>} :
              /\ machine.out = WrittenByMethods \o text \o <<"\n">>
              /\ PrintedByRules(2, text)

\* the __str__ found has returned the empty handle
ReturnsEmpty ==
    \E i \in Invocations(STR_METHOD) :
        \A j \in ReturnOfCall(i) : Trace[j].value.kind = "None"

\* the rules hold whenever no __str__ returns the empty handle
C21_PrintsWhatStrReturnsButNone == ReturnsEmpty \/ C21_PrintsWhatStrReturns

\* the __str__ of the instance printed, inherited from class A, returned the
\* empty handle, and the program stopped on the failed assertion, None not
\* written
C21_EmptyHandleAborts ==
    /\ Shown
    /\ Named("B", STR_METHOD) = {}
    /\ ReturnsEmpty
    /\ exit = "abort"
    /\ machine.out = <<"s", "\n">>

-----------------------------------------------------------------------------
(* The environment of a method invocation.                                 *)

\* the invocations begun so far
Began == { i \in DOMAIN Trace : Trace[i].ev = "Call" }

\* the formal parameters of the method invoked at i
FormalsOf(i) ==
    LET mtd == GetMethod(program.classes, program.cls_[Trace[i].self], Trace[i].method)
    IN  { mtd.formal_params[n] : n \in 1..Len(mtd.formal_params) }

\* the plain names whose Assignment was entered in a frame
AssignedIn(frame) ==
    { Trace[j].node.var_ :
        j \in { n \in DOMAIN Trace : /\ Trace[n].ev = "Execute"
                                     /\ Trace[n].frame = frame
                                     /\ Trace[n].node.type = "Assignment" } }

\* the names an invocation may have bound: self, its formal parameters and
\* the plain names its own body assigns; self and the formal parameters
\* are bound
OwnNames(i) ==
    LET env == machine.closures[Trace[i].frame]
    IN  /\ {"self"} \cup FormalsOf(i) \subseteq DOMAIN env
        /\ DOMAIN env \subseteq {"self"} \cup FormalsOf(i) \cup AssignedIn(Trace[i].frame)

\* self is the receiver
SelfIsReceiver(i) ==
    LET env == machine.closures[Trace[i].frame]
    IN  /\ env["self"].kind = "ClassInstance"
        /\ env["self"].id = Trace[i].self

\* the program u.outer(2) calling self.inner(..) has run its call
Scoped ==
    /\ Len(program.body) = 4
    /\ program.body[4].type = "Assignment"
    /\ program.body[4].var_ = "k"
    /\ pc = 4

\* the method inner of the program, the name it reads and the name it assigns
Inner == GetMethod(program.classes, "A", "inner")

InnerReads == Inner.body.body_.args_[1].rv_.var_name_

InnerAssigns == Inner.body.body_.args_[2].var_

InnerFormals == { Inner.formal_params[n] : n \in 1..Len(Inner.formal_params) }

\* the environments after the call: the global one, the one of outer and
\* the one of inner, which holds v and the name assigned only when the read
\* succeeded
ScopesKept(bound) ==
    /\ Len(machine.closures) = 3
    /\ DOMAIN machine.closures[1] = {"A", "g", "u"} \cup (IF bound THEN {"k"} ELSE {})
    /\ Is(machine.closures[1]["g"], Number(1))
    /\ DOMAIN machine.closures[2] = {"self", "p", "t"} \cup (IF bound THEN {"z"} ELSE {})
    /\ Is(machine.closures[2]["p"], Number(2))
    /\ Is(machine.closures[2]["t"], Number(5))
    /\ DOMAIN machine.closures[3] =
          {"self"} \cup InnerFormals \cup (IF bound THEN {"v", InnerAssigns} ELSE {})

\* the read of a name that is neither self nor a formal parameter fails in
\* inner, and the program ends with the runtime error
ReadFails ==
    /\ machine.sig = "runtime_error"
    /\ exit = "return 1"
    /\ \E e \in Errors : Trace[e].frame = 3

\* the read of self gave the receiver, the read of a formal parameter the
\* actual argument
ReadGives(v) ==
    /\ machine.sig = "none"
    /\ "k" \in DOMAIN machine.closures[1]
    /\ Is(machine.closures[1]["k"], v)

\* C22: every method invocation runs in a fresh environment whose names
\* are exactly self, bound to the receiver, and the formal parameters,
\* bound positionally to the actual arguments; the names of the caller and
\* of the global environment cannot be read (a runtime error), and the
\* plain names the body assigns stay in its own environment, the caller's
\* and the global environment unchanged.
C22_FreshEnvironment ==
    /\ \A i \in Began : OwnNames(i) /\ SelfIsReceiver(i)
    /\ Scoped =>
          /\ ScopesKept(InnerReads \in {"self"} \cup InnerFormals)
          /\ CASE InnerReads = "self" -> ReadGives(ClassInstance(1))
               [] InnerReads \in InnerFormals -> ReadGives(Number(7))
               [] OTHER -> ReadFails

\* the same, self being the receiver unless a formal parameter is named self
C22_FreshEnvironmentButSelf ==
    /\ \A i \in Began : OwnNames(i) /\ ("self" \in FormalsOf(i) \/ SelfIsReceiver(i))
    /\ Scoped =>
          /\ ScopesKept(InnerReads \in {"self"} \cup InnerFormals)
          /\ CASE InnerReads \in InnerFormals -> ReadGives(Number(7))
               [] InnerReads = "self" -> ReadGives(ClassInstance(1))
               [] OTHER -> ReadFails

\* inner(self) is called with 7 and reads self: it returns 7, not the receiver
C22_SelfIsTheArgument ==
    /\ Scoped
    /\ InnerFormals = {"self"}
    /\ InnerReads = "self"
    /\ ReadGives(Number(7))
    /\ \E i \in Began : Trace[i].method = "inner" /\ Trace[i].self = 1

\* inner(p) reads g, bound in the global environment only: a runtime error
C22_GlobalNotVisible ==
    /\ Scoped
    /\ InnerReads = "g"
    /\ InnerFormals = {"p"}
    /\ ReadFails

\* inner assigns g = 3 in its own environment: the global g is still 1
C22_AssignmentIsLocal ==
    /\ Scoped
    /\ InnerReads = "self"
    /\ InnerAssigns = "g"
    /\ ReadGives(ClassInstance(1))
    /\ Is(machine.closures[3]["g"], Number(3))
    /\ Is(machine.closures[1]["g"], Number(1))

-----------------------------------------------------------------------------
(* The names bound in the environments and in the attribute tables.        *)

\* every name bound in a, a machine or the effects a call left, is bound in b
Grown(a, b) ==
    /\ \A k \in DOMAIN a.closures :
          /\ k \in DOMAIN b.closures
          /\ DOMAIN a.closures[k] \subseteq DOMAIN b.closures[k]
    /\ \A id \in DOMAIN a.fields : DOMAIN a.fields[id] \subseteq DOMAIN b.fields[id]

\* the events that left their effects in the history of st after event n
EffectsAfter(st, n) ==
    { i \in DOMAIN st.trace : i > n /\ st.trace[i].ev \in {"throw", "return"} }

\* the nodes of the types entered in the history of st after event n; when
\* the statement fails, its own node, entered first, has not completed
EnteredAfter(st, n, types) ==
    { i \in DOMAIN st.trace :
        /\ i > n
        /\ st.trace[i].ev = "Execute"
        /\ st.trace[i].node.type \in types
        /\ st.sig = "none" \/ i > n + 1 }

\* the names that Assignment and ClassDefinition nodes entered in a frame
\* after event n name, and the names FieldAssignment nodes name
NamedIn(st, n, frame) ==
    { st.trace[i].node.var_ :
        i \in { e \in EnteredAfter(st, n, {"Assignment"}) : st.trace[e].frame = frame } }
    \cup { st.trace[i].node.cls_.name :
             i \in { e \in EnteredAfter(st, n, {"ClassDefinition"}) :
                        st.trace[e].frame = frame } }

FieldsNamed(st, n) ==
    { st.trace[i].node.field_name_ : i \in EnteredAfter(st, n, {"FieldAssignment"}) }

\* a statement keeps every name bound, in the effects each call leaves on
\* the way too, and binds only names that an Assignment, a ClassDefinition
\* or a FieldAssignment it completed names
StatementGrows ==
    LET n == Len(machine.trace)
        left == EffectsAfter(machine', n)
    IN  /\ Grown(machine, machine')
        /\ \A i \in left :
              /\ Grown(machine, machine'.trace[i].effects)
              /\ Grown(machine'.trace[i].effects, machine')
              /\ \A j \in left :
                    i < j => Grown(machine'.trace[i].effects, machine'.trace[j].effects)
        /\ \A k \in DOMAIN machine.closures :
              DOMAIN machine'.closures[k] \subseteq
                  DOMAIN machine.closures[k] \cup NamedIn(machine', n, k)
        /\ \A id \in DOMAIN machine.fields :
              DOMAIN machine'.fields[id] \subseteq
                  DOMAIN machine.fields[id] \cup FieldsNamed(machine', n)

\* C23: in every environment and every attribute table the names bound only
\* grow: a name bound stays bound through assignments, class definitions,
\* method calls and failed evaluations, and a name becomes bound only by an
\* Assignment, a FieldAssignment or a ClassDefinition naming it that
\* completes without error (an invocation starting with self and its
\* formal parameters).
C23_NamesOnlyGrow ==
    /\ [](\A i \in Began : OwnNames(i))
    /\ [][StatementGrows]_vars

\* the program with the statements i and j of BindingStatements has run
Bindings(i, j) ==
    /\ Len(program.body) = 5
    /\ program.body[2].type = "Assignment"
    /\ program.body[2].var_ = "x"
    /\ program.body[4].type = BindingStatements[i].type
    /\ program.body[5].type = BindingStatements[j].type
    /\ program = BindingProgram(i, j)

\* i.e = 3 has bound e; then z = i.bad() failed after self.h = 1 and t = 1:
\* e is still bound, h and t are bound, z and w are not
C23_Witness ==
    /\ Bindings(4, 5)
    /\ pc = 5
    /\ machine.sig = "runtime_error"
    /\ DOMAIN machine.fields[1] = {"e", "h"}
    /\ DOMAIN machine.closures[1] = {"A", "x", "i"}
    /\ DOMAIN machine.closures[2] = {"self", "t"}

-----------------------------------------------------------------------------
(* The construction of an instance.                                        *)

\* x = B(..) has run
Constructed ==
    /\ Len(program.body) = 3
    /\ program.body[3].type = "Assignment"
    /\ program.body[3].rv_.type = "NewInstance"
    /\ pc = 3

\* the arguments of the NewInstance node
ConstructorArgs == program.body[3].rv_.args_

\* the evaluations of the n-th argument, a constant, by the statement
ArgumentEvaluations(n) ==
    { i \in DOMAIN Trace : /\ Trace[i].ev = "Execute"
                           /\ Trace[i].frame = 1
                           /\ Trace[i].node.type = "ValueStatement"
                           /\ Trace[i].node.value_.value = ConstructorArgs[n].value_.value }

\* every argument is evaluated once, in order, before __init__ is invoked
ArgumentsThenInit ==
    /\ \A n \in DOMAIN ConstructorArgs : Cardinality(ArgumentEvaluations(n)) = 1
    /\ \A n \in DOMAIN ConstructorArgs, m \in DOMAIN ConstructorArgs :
          n < m => \A i \in ArgumentEvaluations(n), j \in ArgumentEvaluations(m) : i < j
    /\ \A n \in DOMAIN ConstructorArgs :
          \A i \in ArgumentEvaluations(n), j \in Invocations(INIT_METHOD) : i < j

\* x is the instance of class B
GivesInstance ==
    /\ "x" \in DOMAIN machine.closures[1]
    /\ Is(machine.closures[1]["x"], ClassInstance(2))

\* __init__ is invoked once, on the instance; when it returns, its result
\* is dropped
InitInvoked ==
    /\ Cardinality(Invocations(INIT_METHOD)) = 1
    /\ \A i \in Invocations(INIT_METHOD) : Trace[i].self = 2 /\ Trace[i].caller = 1
    /\ machine.sig = "none" =>
          /\ GivesInstance
          /\ \A i \in Invocations(INIT_METHOD) :
                \E j \in ReturnOfCall(i) : Is(Trace[j].value, Number(5))

\* nothing is evaluated: no argument, no call, no error, the instance
\* given with its attributes as they were
InitSkipped ==
    /\ \A n \in DOMAIN ConstructorArgs : ArgumentEvaluations(n) = {}
    /\ Began = {}
    /\ machine.sig = "none"
    /\ GivesInstance
    /\ \A id \in DOMAIN machine.fields : DOMAIN machine.fields[id] = {}

\* C24: NewInstance invokes __init__ exactly when the nearest __init__ of
\* the class and its ancestors takes as many formal parameters as there are
\* arguments: the arguments are evaluated in order, __init__ is invoked
\* with self bound to the instance and its result is dropped; otherwise no
\* argument is evaluated, no error raised, and the instance is returned
\* with its attribute table as it was.
C24_InitWhenArityMatches ==
    Constructed =>
        IF NearestTakes("B", INIT_METHOD, Len(ConstructorArgs))
        THEN /\ ArgumentsThenInit
             /\ InitInvoked
             /\ \A i \in Invocations(INIT_METHOD) : SelfIsReceiver(i)
        ELSE InitSkipped

\* the same, self being the instance unless a formal parameter is named self
C24_InitWhenArityMatchesButSelf ==
    Constructed =>
        IF NearestTakes("B", INIT_METHOD, Len(ConstructorArgs))
        THEN /\ ArgumentsThenInit
             /\ InitInvoked
             /\ \A i \in Invocations(INIT_METHOD) :
                   "self" \in FormalsOf(i) \/ SelfIsReceiver(i)
        ELSE InitSkipped

\* B(7) with the inherited __init__(self): self is the argument 7, and
\* self.a = 1 fails
C24_SelfIsTheArgument ==
    /\ Constructed
    /\ Len(ConstructorArgs) = 1
    /\ Named("B", INIT_METHOD) = {}
    /\ \E i \in Invocations(INIT_METHOD) :
          /\ FormalsOf(i) = {"self"}
          /\ Is(machine.closures[Trace[i].frame]["self"], Number(7))
    /\ machine.sig = "runtime_error"

\* B(7, 8) with an __init__ of one parameter: nothing is evaluated
C24_Skipped ==
    /\ Constructed
    /\ Len(ConstructorArgs) = 2
    /\ Definers("B", INIT_METHOD) # {}
    /\ InitSkipped

\* B(7) with the __init__(p) inherited from A, B defining none: a is set
C24_Inherited ==
    /\ Constructed
    /\ Len(ConstructorArgs) = 1
    /\ Named("B", INIT_METHOD) = {}
    /\ InitInvoked
    /\ machine.sig = "none"
    /\ DOMAIN machine.fields[2] = {"a"}

-----------------------------------------------------------------------------
(* Subtraction, multiplication and division.                               *)

\* x = l op r has run
Calculated ==
    /\ Len(program.body) = 3
    /\ program.body[3].type = "Assignment"
    /\ program.body[3].rv_.type \in {"Sub", "Mult", "Div"}
    /\ pc = 3

Operation == program.body[3].rv_

\* the value an operand of the program denotes
RECURSIVE ValueOf(_)
ValueOf(node) ==
    CASE node.type = "ValueStatement" -> node.value_
      [] node.type = "None" -> ObjectHolder_None
      [] node.type = "VariableValue" -> ClassInstance(1)
      [] node.type = "Sub" -> Number(ValueOf(node.lhs_).value - ValueOf(node.rhs_).value)

\* the nodes of an operand
RECURSIVE Size(_)
Size(node) ==
    IF node.type = "Sub" THEN 1 + Size(node.lhs_) + Size(node.rhs_) ELSE 1

\* the statement has evaluated the operation and both operands: the
\* Assignment, the operation, and every node of the two operands entered
BothOperandsEvaluated ==
    LET entered == { i \in DOMAIN Trace : /\ Trace[i].ev = "Execute"
                                          /\ \E j \in 1..i : /\ Trace[j].ev = "Execute"
                                                             /\ Trace[j].node.type = "Assignment"
                                                             /\ Trace[j].node.var_ = "x" }
    IN  Cardinality(entered) = 2 + Size(Operation.lhs_) + Size(Operation.rhs_)

\* the runtime error that ended the statement, by division by zero or not
FailedWith(zero) ==
    /\ machine.sig = "runtime_error"
    /\ "x" \notin DOMAIN machine.closures[1]
    /\ \E e \in Errors :
          /\ \A i \in Errors : i <= e
          /\ zero <=> "what" \in DOMAIN Trace[e]
          /\ zero => Trace[e].what = "Division by zero"

\* q is the integer quotient of l by r
IsQuotient(q, l, r) ==
    LET rem == l - q * r
    IN  /\ rem = 0 \/ (rem > 0 <=> l > 0)
        /\ IF r > 0 THEN -r < rem /\ rem < r ELSE r < rem /\ r < -rem

\* the int result does not exist
OutOfRange(name, l, r) ==
    CASE name = "Sub" -> (r < 0 /\ l > INT_MAX + r) \/ (r > 0 /\ l < INT_MIN + r)
      [] name = "Div" -> l = INT_MIN /\ r = -1
      [] name = "Mult" ->
            /\ l # 0 /\ r # 0
            /\ \/ l = INT_MIN \/ r = INT_MIN
               \/ LET a == IF l < 0 THEN -l ELSE l
                      b == IF r < 0 THEN -r ELSE r
                  IN  a > INT_MAX \div b

\* x is the Number the operation gives for the Numbers l and r
Computed(name, l, r) ==
    /\ machine.sig = "none"
    /\ "x" \in DOMAIN machine.closures[1]
    /\ machine.closures[1]["x"].kind = "Number"
    /\ OutOfRange(name, l, r)
       \/ CASE name = "Sub" -> machine.closures[1]["x"].value = l - r
            [] name = "Mult" -> machine.closures[1]["x"].value = l * r
            [] name = "Div" -> IsQuotient(machine.closures[1]["x"].value, l, r)

\* what the operation does with the values l and r of its operands
OperationRule(name, l, r, allowed) ==
    CASE name = "Div" /\ r.kind = "Number" /\ r.value = 0 -> FailedWith(TRUE)
      [] l.kind = "Number" /\ r.kind = "Number" ->
            (allowed /\ OutOfRange(name, l.value, r.value) /\ machine.sig = "undefined")
            \/ Computed(name, l.value, r.value)
      [] OTHER -> FailedWith(FALSE)

\* C25: Div evaluates both operands; then a right operand that is the
\* Number 0 fails with the division by zero error whatever the left one
\* is, two Numbers give their integer quotient, anything else fails with
\* the type error.  Sub and Mult give a Number for two Numbers and fail
\* with a runtime error for operands of any other kinds.
C25_Arithmetic ==
    Calculated =>
        /\ BothOperandsEvaluated
        /\ OperationRule(Operation.type, ValueOf(Operation.lhs_), ValueOf(Operation.rhs_),
                         FALSE)

\* the same for the results that an int holds, the behaviour being
\* undefined for the others
C25_ArithmeticInRange ==
    Calculated =>
        /\ BothOperandsEvaluated
        /\ OperationRule(Operation.type, ValueOf(Operation.lhs_), ValueOf(Operation.rhs_),
                         TRUE)

\* INT_MAX * 2 does not give a Number: the int overflows
C25_Overflow ==
    /\ Calculated
    /\ Operation.type = "Mult"
    /\ Is(ValueOf(Operation.lhs_), Number(INT_MAX))
    /\ Is(ValueOf(Operation.rhs_), Number(2))
    /\ machine.sig = "undefined"
    /\ "x" \notin DOMAIN machine.closures[1]

\* 's' / 0 fails with the division by zero error
C25_ZeroFirst ==
    /\ Calculated
    /\ Operation.type = "Div"
    /\ ValueOf(Operation.lhs_).kind = "String"
    /\ Is(ValueOf(Operation.rhs_), Number(0))
    /\ FailedWith(TRUE)

\* -7 / 2 is -3
C25_Quotient ==
    /\ Calculated
    /\ Operation.type = "Div"
    /\ Is(ValueOf(Operation.lhs_), Number(-7))
    /\ Is(ValueOf(Operation.rhs_), Number(2))
    /\ Computed("Div", -7, 2)
    /\ machine.closures[1]["x"].value = -3

-----------------------------------------------------------------------------
(* The nodes that fail on a name or on a value that is not an instance.    *)

\* what the dotted names give in an environment of st: no value when a
\* name is unbound or a name before the last is not an instance
RECURSIVE Resolve(_, _, _)
Resolve(ids, env, st) ==
    CASE ids[1] \notin DOMAIN env -> [res |-> "unbound"]
      [] Len(ids) = 1 -> [res |-> "value", value |-> env[ids[1]]]
      [] env[ids[1]].kind # "ClassInstance" -> [res |-> "not an instance"]
      [] OTHER -> Resolve(Tail(ids), st.fields[env[ids[1]].id], st)

\* a VariableValue of the statement that the global environment cannot
\* read, and one that it reads as something that is not an instance
Dotted(node) == <<node.var_name_>> \o node.tail_

CannotRead(node) ==
    /\ node.type = "VariableValue"
    /\ Resolve(Dotted(node), machine.closures[1], machine).res # "value"

NotAnInstance(node) ==
    /\ node.type = "VariableValue"
    /\ Resolve(Dotted(node), machine.closures[1], machine).res = "value"
    /\ Resolve(Dotted(node), machine.closures[1], machine).value.kind # "ClassInstance"

\* the nodes the statement has entered
EnteredBy(st, n) == { i \in DOMAIN st.trace : i > n /\ st.trace[i].ev = "Execute" }

\* the statement fails with a runtime error having entered only so many
\* nodes, called nothing, written nothing and changed no environment and no
\* attribute table
FailsUnmodified(nodes) ==
    /\ machine'.sig = "runtime_error"
    /\ exit' = "return 1"
    /\ Cardinality(EnteredBy(machine', Len(machine.trace))) = nodes
    /\ \A i \in DOMAIN machine'.trace :
          i > Len(machine.trace) => machine'.trace[i].ev \in {"Execute", "error"}
    /\ machine'.closures = machine.closures
    /\ machine'.fields = machine.fields
    /\ machine'.out = machine.out

\* the object of the call is itself a call, which does not give an
\* instance: the statement fails on its return, the arguments not entered,
\* with the environments and the attribute tables as that call left them
FailsOnReturn ==
    LET n == Len(machine.trace)
        first == { i \in EffectsAfter(machine', n) : \A j \in EffectsAfter(machine', n) : i <= j }
    IN  \A i \in first :
            (/\ machine'.trace[i].ev = "return"
             /\ machine'.trace[i].frame = Len(machine.closures) + 1
             /\ machine'.trace[i].value.kind # "ClassInstance")
            => /\ machine'.sig = "runtime_error"
               /\ \A j \in EnteredBy(machine', n) : j < i
               /\ machine'.closures = machine'.trace[i].effects.closures
               /\ machine'.fields = machine'.trace[i].effects.fields
               /\ machine'.out = machine'.trace[i].effects.out

\* the top-level statement that runs next
NextStatement == program.body[pc + 1]

FailingStatement ==
    /\ pc' = pc + 1
    /\ CASE NextStatement.type = "Assignment" /\ CannotRead(NextStatement.rv_) ->
                FailsUnmodified(2)
         [] NextStatement.type = "MethodCall"
            /\ (CannotRead(NextStatement.object_) \/ NotAnInstance(NextStatement.object_)) ->
                FailsUnmodified(2)
         [] NextStatement.type = "MethodCall" /\ NextStatement.object_.type = "MethodCall" ->
                FailsOnReturn
         [] NextStatement.type = "FieldAssignment"
            /\ (CannotRead(NextStatement.object_) \/ NotAnInstance(NextStatement.object_)) ->
                FailsUnmodified(1)
         [] OTHER -> TRUE

\* C26: a VariableValue whose head name is unbound, a VariableValue with a
\* tail whose value is not an instance, a MethodCall whose object is not an
\* instance and a FieldAssignment whose base is not an instance fail with a
\* runtime error; the arguments of the MethodCall and the right side of
\* the FieldAssignment are not evaluated, and the failing node changes no
\* environment and no attribute table.
C26_FailuresChangeNothing == [][pc' # pc => FailingStatement]_vars

\* i.e = 3 has run, and then statement j of BindingStatements has failed
FailedSecond(j) ==
    /\ Bindings(4, j)
    /\ pc = 5
    /\ machine.sig = "runtime_error"

\* i.e = 3, then x.e = i.set(4), x being a Number: the field f is not set
C26_Witness ==
    /\ FailedSecond(7)
    /\ DOMAIN machine.fields[1] = {"e"}
    /\ Began = {}

\* i.e = 3, then x.set(i.set(4)): nothing is called
C26_CallWitness ==
    /\ FailedSecond(10)
    /\ DOMAIN machine.fields[1] = {"e"}
    /\ Began = {}

\* i.e = 3, then z = x.e: x, before the last name, is not an instance
C26_TailWitness == FailedSecond(11) /\ Began = {}

\* i.e = 3, then i.e.g = i.set(4): the base i.e is not an instance
C26_BaseWitness == FailedSecond(14) /\ Began = {} /\ DOMAIN machine.fields[1] = {"e"}

\* i.e = 3, then i.set(4).set(i.set(4)): set is called once
C26_ObjectWitness ==
    /\ FailedSecond(13)
    /\ Cardinality(Began) = 1
    /\ DOMAIN machine.fields[1] = {"e", "f"}

-----------------------------------------------------------------------------
(* The handles to an instance.                                             *)

\* the program with the write w and the read r
Aliasing(w, r) ==
    /\ Len(program.body) = 10
    /\ program = AliasProgram(w, r)

\* the constructor evaluation whose instance a write and a read go to: the
\* one of a (also b, c.peer, self and the argument), of e or of f, the two
\* evaluations of the constructor in spawn
WrittenInstance(w) == IF w <= 5 THEN "a" ELSE "e"

ReadInstance(r) ==
    CASE r <= 5 -> "a"
      [] r = 6 -> "f"
      [] r = 7 -> "e"

\* the read gave the Number n; the read found no field x
ReadsNumber(n) ==
    /\ machine.sig = "none"
    /\ "r" \in DOMAIN machine.closures[1]
    /\ Is(machine.closures[1]["r"], Number(n))

ReadsNothing ==
    /\ machine.sig = "runtime_error"
    /\ "r" \notin DOMAIN machine.closures[1]

\* the read through a handle to the instance written gives 5, through a
\* handle to another instance what that instance had: 0 for a, no field
\* for e and f
ReadAfterWrite(written, read) ==
    CASE read = written -> ReadsNumber(5)
      [] read = "a" -> ReadsNumber(0)
      [] OTHER -> ReadsNothing

\* the write sets x of its instance to 5 and changes no other attribute
\* table and no environment that existed
WriteIsLocal ==
    LET id == IF program.body[9].type = "FieldAssignment"
                 /\ program.body[9].object_.var_name_ = "e" THEN 3 ELSE 1
    IN  /\ machine'.sig = "none"
        /\ \A k \in DOMAIN machine.closures : machine'.closures[k] = machine.closures[k]
        /\ \A i \in DOMAIN machine.fields :
              i # id => machine'.fields[i] = machine.fields[i]
        /\ DOMAIN machine'.fields[id] = DOMAIN machine.fields[id] \cup {"x"}
        /\ Is(machine'.fields[id]["x"], Number(5))
        /\ \A name \in DOMAIN machine.fields[id] :
              name # "x" => machine'.fields[id][name] = machine.fields[id][name]

WriteStep == (Len(program.body) = 10 /\ pc = 8 /\ pc' = 9) => WriteIsLocal

\* C27: all handles to an instance (the result of its constructor, the
\* variables and fields it was assigned to, actual arguments, self in its
\* methods) alias one attribute table: a field assigned through one of
\* them is read through every other one, after the method has returned
\* too; and a field assignment on an instance changes no attribute table
\* of a different instance and no environment.
C27_OneAttributeTable ==
    /\ [](\A w \in DOMAIN AliasWrites, r \in DOMAIN AliasReads :
            (Aliasing(w, r) /\ pc = 10) =>
                ReadAfterWrite(WrittenInstance(w), ReadInstance(r)))
    /\ [][WriteStep]_vars

\* the same, the instances of e and f, created by the one constructor node
\* of spawn, being one instance
C27_OneAttributeTablePerNode ==
    /\ [](\A w \in DOMAIN AliasWrites, r \in DOMAIN AliasReads :
            (Aliasing(w, r) /\ pc = 10) =>
                ReadAfterWrite(WrittenInstance(w),
                               IF r = 6 THEN "e" ELSE ReadInstance(r)))
    /\ [][WriteStep]_vars

\* e.x = 5 is read as f.x, f being the result of another evaluation of the
\* constructor
C27_SpawnedShareTable == Aliasing(6, 6) /\ pc = 10 /\ ReadsNumber(5)

\* self.x = 5 in put is read through c.peer after put has returned
C27_SelfThenField == Aliasing(4, 3) /\ pc = 10 /\ ReadsNumber(5)

\* other.x = 5 in poke, a being the argument, is read through self in get
C27_ArgumentThenSelf == Aliasing(5, 4) /\ pc = 10 /\ ReadsNumber(5)

=============================================================================
